---- MODULE Spec2Model ----
(***************************************************************************)
(* Model of the coding-in-parallel repair agent: the diff validator        *)
(* (validate.py), the VCS gateway (vcs.py), the gate runners (gates.py)    *)
(* and the transactional no-regression executor (tnr.py).                  *)
(*                                                                         *)
(* A unified diff is a sequence of lines.  A line is a record whose field  *)
(* k is the class the code distinguishes by the line's first characters:   *)
(*   "hdr"      diff --git a/<a> b/<b>                                     *)
(*   "hunk"     @@ -<os> +<ns> @@        (matches _HUNK_HEADER_RE)         *)
(*   "bad_hunk" @@                       (starts with @@, no line numbers) *)
(*   "ctx"      ' ' + text                                                 *)
(*   "del"      '-' + text               (includes the '--- a/f' header)   *)
(*   "add"      '+' + text               (includes the '+++ b/f' header)   *)
(*   "other"    any other non-empty line (\ No newline at end of file)     *)
(*   "blank"    the empty line                                             *)
(***************************************************************************)
EXTENDS Integers, Sequences, FiniteSets, TLC

VARIABLES
    vdiff,      \* validator run: the diff handed to ensure_within_limits
    vparams,    \* validator run: the keyword arguments
    vresult,    \* validator run: outcome of the call
    config,     \* txn_patch: config.gates and config.tnr
    proposals,  \* txn_patch: the unified diffs of the proposals, in order
    ignored,    \* repository: the untracked files .gitignore names
    commits,    \* repository: the commits, oldest first; HEAD is the last
    work,       \* repository: the working tree
    pc,         \* txn_patch: position in the function
    head,       \* txn_patch: the checkpoint taken at entry
    attempt,    \* txn_patch: loop counter of enumerate(proposals, start=1)
    mu_pre,     \* txn_patch: local
    mu_candidate, \* txn_patch: local
    mu_post,    \* txn_patch: local
    logs,       \* txn_patch: local
    result,     \* txn_patch: the TransactionResult returned, or the exception raised
    entry_work, \* history: the working tree when txn_patch was entered
    baseline,   \* history: outcome of the baseline run of the targeted tests
    trail,      \* history: what each attempt did
    vcsrun,     \* run of one vcs function: arguments and outcome
    derive,     \* _derive_test_cmd run: arguments and outcome
    ctl,        \* run_controller: its locals
    cli,        \* main: the run of the command line
    inv         \* run_investigations: its locals

vvars == <<vdiff, vparams, vresult>>
tvars == <<config, proposals, ignored, commits, work, pc, head, attempt, mu_pre,
           mu_candidate, mu_post, logs, result, entry_work, baseline, trail>>
xvars == <<vcsrun, derive, ctl, cli, inv>>
vars == <<vvars, tvars, xvars>>

\* the components that do not run
VcsIdle    == vcsrun = [pc |-> "idle"]
DeriveIdle == derive = [pc |-> "idle"]
CtlIdle    == ctl = [pc |-> "idle"]
CliIdle    == cli = [pc |-> "idle"]
InvIdle    == inv = [pc |-> "idle"]

----------------------------------------------------------------------------
(* Lines of a diff *)

NoFile == "<none>"
NoLine == -1

MkLine(k, a, b, os, ns, text) ==
    [k |-> k, a |-> a, b |-> b, os |-> os, ns |-> ns, text |-> text]

Hdr(a, b)    == MkLine("hdr", a, b, NoLine, NoLine, "")
Hunk(os, ns) == MkLine("hunk", NoFile, NoFile, os, ns, "")
BadHunk      == MkLine("bad_hunk", NoFile, NoFile, NoLine, NoLine, "")
Ctx(t)       == MkLine("ctx", NoFile, NoFile, NoLine, NoLine, t)
Del(t)       == MkLine("del", NoFile, NoFile, NoLine, NoLine, t)
Add(t)       == MkLine("add", NoFile, NoFile, NoLine, NoLine, t)
Other        == MkLine("other", NoFile, NoFile, NoLine, NoLine, "")
Blank        == MkLine("blank", NoFile, NoFile, NoLine, NoLine, "")

\* text of a '-'/'+' line after its first character
OldHeaderText == "-- a/mod.py"
NewHeaderText == "++ b/mod.py"
DefTexts      == {"def f", "def g"}
DoubleColonTexts == {"def h::"}

\* line.startswith("-def ") / line.startswith("+def ")
StartsWithDef(t) == t \in DefTexts \cup DoubleColonTexts

Max(x, y) == IF x >= y THEN x ELSE y
Min(x, y) == IF x <= y THEN x ELSE y

----------------------------------------------------------------------------
(* validate.py *)

RECURSIVE CountLines(_, _)
\* number of lines of diff whose class is in kinds
CountLines(diff, kinds) ==
    IF diff = <<>> THEN 0
    ELSE (IF Head(diff).k \in kinds THEN 1 ELSE 0) + CountLines(Tail(diff), kinds)

\* require_unified_diff: "" when the diff looks like a unified diff, else the message
require_unified_diff(diff) ==
    IF diff = <<>> \/ Head(diff).k # "hdr"
        THEN "Diff must start with 'diff --git'."
    ELSE IF \A i \in 1..Len(diff) : diff[i].k \notin {"hunk", "bad_hunk"}
        THEN "Diff must contain a hunk header '@@'."
    ELSE IF \E i \in 1..Len(diff) :
                diff[i].k = "add" /\ diff[i].text \in DoubleColonTexts
        THEN "Suspicious double-colon in definition header."
    ELSE ""

\* _count_changed_loc: every line that starts with '+' or '-'
_count_changed_loc(diff) == CountLines(diff, {"add", "del"})

\* _touched_files: the b/ side of every 'diff --git' line
_touched_files(diff) == {diff[i].b : i \in {j \in 1..Len(diff) : diff[j].k = "hdr"}}

\* _span_map: the padded (start, end) ranges of the spans, per file
_span_map(target_spans, padding) ==
    [f \in {target_spans[i].file : i \in 1..Len(target_spans)} |->
        {<<Max(1, target_spans[i].start_line - padding),
           Max(Max(1, target_spans[i].start_line - padding),
               target_spans[i].end_line + padding)>> :
            i \in {j \in 1..Len(target_spans) : target_spans[j].file = f}}]

\* a range test that has lost its upper bound
_line_allowed_NoEnd(span_ranges, file, line) ==
    /\ file \in DOMAIN span_ranges
    /\ \E r \in span_ranges[file] : r[1] <= line

\* _line_allowed: line lies in one of the padded ranges of file
_line_allowed(span_ranges, file, line) ==
    /\ file \in DOMAIN span_ranges
    /\ \E r \in span_ranges[file] : r[1] <= line /\ line <= r[2]

\* the signature guard evaluated after an added line (validate.py line 145)
SignatureChanged(added_defs, removed_defs, allow_api_change) ==
    /\ added_defs # {}
    /\ removed_defs # {}
    /\ added_defs # removed_defs
    /\ ~allow_api_change

\* state of the walk over the lines before the first line is read
WalkInit ==
    [current_file |-> NoFile, old_line |-> NoLine, new_line |-> NoLine,
     removed_defs |-> {}, added_defs |-> {}, err |-> ""]

\* a hunk header that seeds the cursors only when they are not yet set
Seed_FirstHunkOnly(w, line) ==
    [w EXCEPT !.old_line = IF @ = NoLine THEN line.os ELSE @,
              !.new_line = IF @ = NoLine THEN line.ns ELSE @,
              !.removed_defs = {}, !.added_defs = {}]

\* a well-formed hunk header: both cursors are set from it and the def sets
\* start empty (lines 107-112)
Seed(w, line) ==
    [w EXCEPT !.old_line = line.os, !.new_line = line.ns,
              !.removed_defs = {}, !.added_defs = {}]

\* one iteration of the for loop of ensure_within_limits (lines 93-147)
WalkLine(w, line, span_ranges, allow_api_change) ==
    IF w.err # "" THEN w
    ELSE IF line.k = "hdr" THEN
        [w EXCEPT !.current_file = line.b, !.old_line = NoLine, !.new_line = NoLine,
                  !.removed_defs = {}, !.added_defs = {}]
    ELSE IF line.k \in {"hunk", "bad_hunk"} THEN
        IF w.current_file = NoFile
            THEN [w EXCEPT !.err = "Hunk appears before diff header."]
        ELSE IF line.k = "bad_hunk"
            THEN [w EXCEPT !.err = "Malformed hunk header in diff."]
        ELSE Seed(w, line)
    ELSE IF line.k = "blank" \/ w.current_file = NoFile THEN w
    ELSE IF line.k = "ctx" THEN
        [w EXCEPT !.old_line = IF @ # NoLine THEN @ + 1 ELSE @,
                  !.new_line = IF @ # NoLine THEN @ + 1 ELSE @]
    ELSE IF line.k = "del" THEN
        IF w.old_line = NoLine
            THEN [w EXCEPT !.err = "Deletion encountered before hunk header."]
        ELSE IF ~_line_allowed(span_ranges, w.current_file, w.old_line)
            THEN [w EXCEPT !.err = "Deletion outside allowed spans."]
        ELSE [w EXCEPT !.removed_defs =
                            IF StartsWithDef(line.text) /\ ~allow_api_change
                                THEN @ \cup {line.text} ELSE @,
                       !.old_line = @ + 1]
    ELSE IF line.k = "add" THEN
        IF w.new_line = NoLine
            THEN [w EXCEPT !.err = "Addition encountered before hunk header."]
        ELSE IF ~_line_allowed(span_ranges, w.current_file, w.new_line)
            THEN [w EXCEPT !.err = "Addition outside allowed spans."]
        ELSE LET added == IF StartsWithDef(line.text) /\ ~allow_api_change
                              THEN w.added_defs \cup {line.text} ELSE w.added_defs
             IN  [w EXCEPT !.added_defs = added,
                           !.new_line = @ + 1,
                           !.err = IF SignatureChanged(added, w.removed_defs,
                                                       allow_api_change)
                                       THEN "Public API signature change detected in diff."
                                       ELSE ""]
    ELSE w

RECURSIVE Walk(_, _, _, _)
\* the for loop of ensure_within_limits over the lines of diff, from state w
Walk(w, diff, span_ranges, allow_api_change) ==
    IF diff = <<>> THEN w
    ELSE Walk(WalkLine(w, Head(diff), span_ranges, allow_api_change),
              Tail(diff), span_ranges, allow_api_change)

\* ensure_within_limits: [err |-> "" or the ValidationError message, walk |-> final walk state]
ensure_within_limits(diff, allowed_files, max_loc, max_files, target_spans, padding_lines, allow_api_change) ==
    LET files == _touched_files(diff)
        span_files == {target_spans[i].file : i \in 1..Len(target_spans)}
        pre == IF require_unified_diff(diff) # "" THEN require_unified_diff(diff)
               ELSE IF files = {} THEN "Diff must touch at least one file header."
               ELSE IF Cardinality(files) > max_files THEN "Diff touches too many files."
               ELSE IF ~(files \subseteq allowed_files)
                   THEN "Diff touches files outside of allowed set."
               ELSE IF _count_changed_loc(diff) > max_loc
                   THEN "Diff changes too many lines."
               ELSE IF files \cap span_files = {}
                   THEN "Diff does not touch any target span files."
               ELSE ""
        w == Walk(WalkInit, diff, _span_map(target_spans, padding_lines),
                  allow_api_change)
    IN  IF pre # "" THEN [err |-> pre, walk |-> WalkInit]
        ELSE [err |-> w.err, walk |-> w]

----------------------------------------------------------------------------
(* vcs.py and the git commands it runs.  A tree maps every file name to       *)
(* [present, lines].                                                        *)

GonePy   == "gone.py"
NotesTxt == "notes.txt"
PycFile  == "__pycache__/mod.pyc"
ModPy    == "mod.py"
OtherPy  == "other.py"
FileOrder == <<ModPy, OtherPy, GonePy, NotesTxt, PycFile>>
Files == {FileOrder[i] : i \in 1..Len(FileOrder)}

Absent == [present |-> FALSE, lines |-> <<>>]
File(lines) == [present |-> TRUE, lines |-> lines]

\* text after the first character of the lines '--- a/<f>' and '+++ b/<f>'
OldHeaderTextOf(f) ==
    CASE f = ModPy -> OldHeaderText
      [] f = OtherPy -> "-- a/other.py"
      [] f = GonePy -> "-- a/gone.py"
      [] OTHER -> "-- a/<file>"
NewHeaderTextOf(f) ==
    CASE f = ModPy -> NewHeaderText
      [] f = OtherPy -> "++ b/other.py"
      [] f = GonePy -> "++ b/gone.py"
      [] OTHER -> "++ b/<file>"

\* line.startswith("--- ") / line.startswith("+++ "); no text of the model
\* starts with "--" or "++" without the space that follows
IsOldHeader(line) ==
    line.k = "del" /\ line.text \in {OldHeaderTextOf(f) : f \in Files}
IsNewHeader(line) ==
    line.k = "add" /\ line.text \in {NewHeaderTextOf(f) : f \in Files}

RECURSIVE NormalizeFrom(_, _, _, _)
\* the while loop of _normalize_diff (lines 11-33) over the lines left.  at is
\* the place in the loop body: "line" at its top, "old" at the test for the
\* '--- ' line (line 22), "new" at the test for the '+++ ' line (line 27); hdr
\* is the 'diff --git' line read last.
NormalizeFrom(lines, at, hdr, output) ==
    IF at = "old" THEN
        IF lines # <<>> /\ IsOldHeader(Head(lines))
            THEN NormalizeFrom(Tail(lines), "new", hdr, Append(output, Head(lines)))
            ELSE NormalizeFrom(lines, "new", hdr,
                               Append(output, Del(OldHeaderTextOf(hdr.a))))
    ELSE IF at = "new" THEN
        IF lines # <<>> /\ IsNewHeader(Head(lines))
            THEN NormalizeFrom(Tail(lines), "line", hdr, Append(output, Head(lines)))
            ELSE NormalizeFrom(lines, "line", hdr,
                               Append(output, Add(NewHeaderTextOf(hdr.b))))
    ELSE IF lines = <<>> THEN output
    ELSE IF Head(lines).k = "hdr"
        THEN NormalizeFrom(Tail(lines), "old", Head(lines), Append(output, Head(lines)))
    ELSE NormalizeFrom(Tail(lines), "line", hdr, Append(output, Head(lines)))
NormalizeLines(lines) == NormalizeFrom(lines, "line", Blank, <<>>)

\* a text is [lines, nl]: what str.splitlines() gives, and whether the text
\* ends with a newline.  "\n".join(output) as such a text: a last element that
\* is the empty string leaves the text ending with the newline before it.
Join(output) ==
    IF output = <<>> THEN [lines |-> <<>>, nl |-> FALSE]
    ELSE IF output[Len(output)].k = "blank"
        THEN [lines |-> SubSeq(output, 1, Len(output) - 1), nl |-> Len(output) > 1]
    ELSE [lines |-> output, nl |-> FALSE]

\* _normalize_diff (lines 10-38) on a text
_normalize_diff(diff) ==
    LET text == Join(NormalizeLines(diff.lines)) IN
        IF diff.nl /\ ~text.nl
            THEN [lines |-> IF text.lines = <<>> THEN <<Blank>> ELSE text.lines,
                  nl |-> TRUE]
            ELSE text

RECURSIVE SkipWhile(_, _)
\* _manual_apply lines 81-85: the '---' lines, then the '+++' lines, that
\* follow a 'diff --git' line are skipped
SkipWhile(lines, old) ==
    IF lines # <<>> /\ (IF old THEN IsOldHeader(Head(lines)) ELSE IsNewHeader(Head(lines)))
        THEN SkipWhile(Tail(lines), old)
        ELSE lines
SkipHeaders(lines) == SkipWhile(SkipWhile(lines, TRUE), FALSE)

\* the lines of one file section: [a, b, lines], lines up to the next 'diff --git'
RECURSIVE SectionsFrom(_, _)
SectionsFrom(diff, acc) ==
    IF diff = <<>> THEN acc
    ELSE IF Head(diff).k = "hdr"
        THEN SectionsFrom(Tail(diff),
                 Append(acc, [a |-> Head(diff).a, b |-> Head(diff).b, lines |-> <<>>]))
    ELSE IF acc = <<>> THEN SectionsFrom(Tail(diff), acc)
    ELSE SectionsFrom(Tail(diff),
             [acc EXCEPT ![Len(acc)].lines = Append(@, Head(diff))])
Sections(diff) == SectionsFrom(diff, <<>>)

\* _apply_hunks: the loop over hunk_lines with its pointer into original
RECURSIVE ApplyHunkLines(_, _, _, _)
ApplyHunkLines(original, hunk_lines, pointer, output) ==
    IF hunk_lines = <<>>
        THEN output \o SubSeq(original, pointer + 1, Len(original))
    ELSE LET line == Head(hunk_lines) IN
        IF line.k = "ctx" THEN
            IF pointer < Len(original)
                THEN ApplyHunkLines(original, Tail(hunk_lines), pointer + 1,
                                    Append(output, original[pointer + 1]))
                ELSE ApplyHunkLines(original, Tail(hunk_lines), pointer, output)
        ELSE IF line.k = "del" THEN
            ApplyHunkLines(original, Tail(hunk_lines), pointer + 1, output)
        ELSE IF line.k = "add" THEN
            ApplyHunkLines(original, Tail(hunk_lines), pointer, Append(output, line.text))
        ELSE ApplyHunkLines(original, Tail(hunk_lines), pointer, output)

\* _apply_hunks: read the file (FileNotFoundError when it is missing), rebuild, write
_apply_hunks(tree, file_rel, hunk_lines) ==
    IF ~tree[file_rel].present
        THEN [tree |-> tree, exc |-> "FileNotFoundError"]
        ELSE [tree |-> [tree EXCEPT ![file_rel] =
                            File(ApplyHunkLines(tree[file_rel].lines, hunk_lines, 0, <<>>))],
              exc |-> ""]

\* _manual_apply: _apply_hunks on the b/ path of every file section, in order
RECURSIVE ManualSections(_, _)
ManualSections(tree, sections) ==
    IF sections = <<>> THEN [tree |-> tree, exc |-> ""]
    ELSE LET r == _apply_hunks(tree, Head(sections).b, SkipHeaders(Head(sections).lines))
         IN  IF r.exc # "" THEN r ELSE ManualSections(r.tree, Tail(sections))
_manual_apply(tree, diff) ==
    CHOOSE r \in {ManualSections(tree, sections) : sections \in {Sections(diff)}} : TRUE

\* the hunks of a file section: [os, pre, post, trailing], pre the ' ' and '-'
\* texts in order, post the ' ' and '+' texts in order, trailing the number of
\* ' ' lines that end the hunk
RECURSIVE HunksFrom(_, _)
HunksFrom(lines, acc) ==
    IF lines = <<>> THEN acc
    ELSE LET line == Head(lines) IN
        IF line.k = "hunk"
            THEN HunksFrom(Tail(lines),
                     Append(acc, [os |-> line.os, pre |-> <<>>, post |-> <<>>,
                                  trailing |-> 0]))
        ELSE IF acc = <<>> \/ line.k \notin {"ctx", "del", "add"}
            THEN HunksFrom(Tail(lines), acc)
        ELSE HunksFrom(Tail(lines),
                 [acc EXCEPT ![Len(acc)].pre = IF line.k \in {"ctx", "del"}
                                                   THEN Append(@, line.text) ELSE @,
                             ![Len(acc)].post = IF line.k \in {"ctx", "add"}
                                                    THEN Append(@, line.text) ELSE @,
                             ![Len(acc)].trailing = IF line.k = "ctx" THEN @ + 1 ELSE 0])
Hunks(lines) == HunksFrom(lines, <<>>)

\* the positions of content at which git apply accepts the old side of a hunk:
\* the old side matches there; a hunk whose header names line 0 or 1 matches
\* only at the first line; a hunk that ends without context matches only at
\* the end of the file
MatchPositions(content, h) ==
    {p \in 1..(Len(content) + 1) :
        /\ p + Len(h.pre) - 1 <= Len(content)
        /\ SubSeq(content, p, p + Len(h.pre) - 1) = h.pre
        /\ h.os <= 1 => p = 1
        /\ h.trailing = 0 => p + Len(h.pre) - 1 = Len(content)}

\* content with the old side of h at position p replaced by its new side
ApplyAt(content, p, h) ==
    SubSeq(content, 1, p - 1) \o h.post
        \o SubSeq(content, p + Len(h.pre), Len(content))

\* git apply on one file: every content it can produce.  A hunk is applied
\* where its old side matches: at the line its header names (shifted by the
\* hunks before it) when it matches there, else at another matching line.
RECURSIVE GitApplyHunks(_, _, _)
GitApplyHunks(content, hunks, delta) ==
    IF hunks = <<>> THEN {content}
    ELSE LET h == Head(hunks)
             P == MatchPositions(content, h)
             at == IF (h.os + delta) \in P THEN {h.os + delta} ELSE P
         IN  UNION {GitApplyHunks(ApplyAt(content, p, h), Tail(hunks),
                                  delta + Len(h.post) - Len(h.pre)) : p \in at}

\* git apply on the sections in order: every tree it can produce, none when it
\* rejects the patch.  A section whose a/ and b/ paths differ takes the a/ file,
\* writes the result to the b/ path and removes the a/ file.
RECURSIVE GitApplySections(_, _)
GitApplySections(tree, sections) ==
    IF sections = <<>> THEN {tree}
    ELSE LET s == Head(sections) IN
        IF \/ ~tree[s.a].present
           \/ \E i \in 1..Len(s.lines) : s.lines[i].k = "bad_hunk"
           \/ Hunks(s.lines) = <<>>
        THEN {}
        ELSE UNION {GitApplySections(
                        [tree EXCEPT ![s.a] = IF s.a # s.b THEN Absent ELSE @,
                                     ![s.b] = File(c)],
                        Tail(sections)) :
                    c \in GitApplyHunks(tree[s.a].lines, Hunks(s.lines), 0)}
GitApply(tree, diff) == GitApplySections(tree, Sections(diff))

\* apply_diff: every outcome [tree, exc, how].  git apply either applies the
\* normalized diff or rejects it (a hunk that matches nowhere, or a patch it
\* calls corrupt because the counts of a hunk header are wrong: the model does
\* not carry the counts); on rejection _manual_apply runs.
apply_diff(tree, diff) ==
    UNION {{[tree |-> t, exc |-> "", how |-> "native"] : t \in GitApply(tree, normalized)}
           \cup {[tree |-> m.tree, exc |-> m.exc, how |-> "manual"] :
                    m \in {_manual_apply(tree, normalized)}} :
           normalized \in {NormalizeLines(diff)}}

\* a file git tracks at the commit whose tree is committed
Tracked(committed, f) == committed[f].present

\* a revert that leaves the working tree as it is
revert_KeepsTree(tree, committed) == tree

\* a revert that resets the tracked files and leaves the untracked ones
revert_ResetOnly(tree, committed) ==
    [f \in Files |-> IF Tracked(committed, f) THEN committed[f] ELSE tree[f]]

\* revert: git reset --hard <commit>, then git clean -fd
revert(tree, committed) ==
    [f \in Files |->
        IF Tracked(committed, f) THEN committed[f]
        ELSE IF f \in ignored THEN tree[f]
        ELSE Absent]

\* stage_all: the tree git add -A leaves in the index
stage_all(tree, committed) ==
    [f \in Files |->
        IF ~Tracked(committed, f) /\ f \in ignored THEN Absent ELSE tree[f]]

RECURSIVE LCS(_, _)
\* length of a longest common subsequence of two line sequences
LCS(x, y) ==
    IF x = <<>> \/ y = <<>> THEN 0
    ELSE IF Head(x) = Head(y) THEN 1 + LCS(Tail(x), Tail(y))
    ELSE Max(LCS(Tail(x), y), LCS(x, Tail(y)))

\* one row of git diff --numstat: <<added, deleted>> of a tracked file
Numstat(old, new) == <<Len(new) - LCS(old, new), Len(old) - LCS(old, new)>>

RECURSIVE MuSum(_, _, _)
\* _measure_mu: sum of (added + deleted) // 2 over the rows of git diff --numstat
MuSum(tree, committed, i) ==
    IF i > Len(FileOrder) THEN 0
    ELSE LET f == FileOrder[i]
             row == Numstat(committed[f].lines, tree[f].lines)
         IN  (IF Tracked(committed, f) /\ tree[f] # committed[f]
                  THEN (row[1] + row[2]) \div 2 ELSE 0)
             + MuSum(tree, committed, i + 1)
\* a measure that halves the sum once more
_measure_mu_Halved(tree, committed) == MuSum(tree, committed, 1) \div 2

\* tnr.py _measure_mu: the sum over the rows of git diff --numstat
_measure_mu(tree, committed) == MuSum(tree, committed, 1)

----------------------------------------------------------------------------
(* tnr.py: txn_patch *)

MaxProposals == 2     \* longest list of proposals handed to txn_patch
MaxActions   == 2     \* largest config.tnr.actions_per_txn

\* config.limits defaults
MaxLocChanges     == 12
MaxFilesPerDiff   == 2
SlicePaddingLines == 80

Span(file, start_line, end_line) ==
    [file |-> file, start_line |-> start_line, end_line |-> end_line]

\* step.id: the id of the plan step the controller is at, "step-1" for a
\* call of txn_patch on its own
StepId    == IF ctl.pc = "idle" THEN "step-1" ELSE ctl.step
StepSpans == <<Span(ModPy, 1, 3), Span(GonePy, 1, 1)>>

NoMu == -1

\* the tree of the initial commit
BaseTree ==
    [f \in Files |->
        IF f = ModPy THEN File(<<"def f", "x", "y">>)
        ELSE IF f = OtherPy THEN File(<<"x">>)
        ELSE Absent]

\* working trees txn_patch is entered with: clean, a tracked file edited,
\* an untracked file present
EntryTrees ==
    {BaseTree,
     [BaseTree EXCEPT ![ModPy] = File(<<"def f", "w", "y">>)],
     [BaseTree EXCEPT ![NotesTxt] = File(<<"n">>)]}

PFix     == <<Hdr(ModPy, ModPy), Hunk(1, 1), Ctx("def f"), Del("x"), Add("z"), Ctx("y")>>
PAdd     == <<Hdr(ModPy, ModPy), Hunk(1, 1), Ctx("def f"), Add("z")>>
PZeroCtx == <<Hdr(ModPy, ModPy), Hunk(2, 2), Del("x"), Add("z")>>
PNoop    == <<Hdr(ModPy, ModPy), Hunk(1, 1), Ctx("def f"), Del("x"), Add("x"), Ctx("y")>>
PGone    == <<Hdr(GonePy, GonePy), Hunk(1, 1), Del("x"), Add("z")>>
PApi     == <<Hdr(ModPy, ModPy), Hunk(1, 1), Del("def f"), Add("def g")>>
ProposalPool == {PFix, PAdd, PZeroCtx, PNoop, PGone, PApi}

ConfigInputs ==
    [static : BOOLEAN, targeted_tests : BOOLEAN,
     require_mu_nonworsening : BOOLEAN, actions_per_txn : 0..MaxActions]

NoResult ==
    [kind |-> "none", committed |-> FALSE, applied_diff |-> 0, mu_pre |-> NoMu,
     mu_post |-> NoMu, logs |-> <<>>, exc |-> "", raised_by |-> ""]
\* a result that names the first proposal of the list whichever was committed
Returned_FirstOfList(committed, applied_diff, pre, post, lg) ==
    [kind |-> "returned", committed |-> committed,
     applied_diff |-> IF committed THEN 1 ELSE 0,
     mu_pre |-> pre, mu_post |-> post, logs |-> lg, exc |-> "", raised_by |-> ""]

\* TransactionResult(committed, applied_diff, mu_pre, mu_post, logs);
\* applied_diff is the position of the proposal in the list, 0 for None
Returned(committed, applied_diff, pre, post, lg) ==
    [kind |-> "returned", committed |-> committed, applied_diff |-> applied_diff,
     mu_pre |-> pre, mu_post |-> post, logs |-> lg, exc |-> "", raised_by |-> ""]
Raised(exc, raised_by) ==
    [kind |-> "raised", committed |-> FALSE, applied_diff |-> 0, mu_pre |-> NoMu,
     mu_post |-> NoMu, logs |-> <<>>, exc |-> exc, raised_by |-> raised_by]

HeadTree == commits[Len(commits)].tree

\* the txn_patch variables while no transaction runs (validator runs)
TxnIdle ==
    /\ config = [static |-> FALSE, targeted_tests |-> FALSE,
                 require_mu_nonworsening |-> FALSE, actions_per_txn |-> 0]
    /\ proposals = <<>>
    /\ ignored = {}
    /\ commits = <<[message |-> <<"init">>, tree |-> BaseTree]>>
    /\ work = BaseTree
    /\ pc = "idle"
    /\ head = 0
    /\ attempt = 0
    /\ mu_pre = NoMu /\ mu_candidate = NoMu /\ mu_post = NoMu
    /\ logs = <<>>
    /\ result = NoResult
    /\ entry_work = BaseTree
    /\ baseline = "none"
    /\ trail = <<>>

Init ==
    /\ vdiff = <<>>
    /\ vparams = [allowed_files |-> {}, target_spans |-> <<>>, padding_lines |-> 0,
                  max_loc |-> 0, max_files |-> 0, allow_api_change |-> FALSE]
    /\ vresult = [err |-> "<pending>", walk |-> WalkInit]
    /\ config \in ConfigInputs
    /\ proposals \in UNION {[1..n -> ProposalPool] : n \in 0..MaxProposals}
    /\ ignored \in {{}, {PycFile}}
    /\ commits = <<[message |-> <<"init">>, tree |-> BaseTree]>>
    /\ work \in EntryTrees
    /\ pc = "entry"
    /\ head = 0
    /\ attempt = 0
    /\ mu_pre = NoMu /\ mu_candidate = NoMu /\ mu_post = NoMu
    /\ logs = <<>>
    /\ result = NoResult
    /\ entry_work = work
    /\ baseline = "none"
    /\ trail = <<>>
    /\ VcsIdle /\ DeriveIdle /\ CtlIdle /\ CliIdle /\ InvIdle

\* the stage that follows apply / the candidate measure / the static gate
AfterMeasure == IF config.static THEN "static"
                ELSE IF config.targeted_tests THEN "targeted" ELSE "mu_post"
AfterApply   == IF ~config.targeted_tests THEN "measure" ELSE AfterMeasure
AfterStatic  == IF config.targeted_tests THEN "targeted" ELSE "mu_post"

\* a budget test that lets one more proposal through
OverBudget_OneMore(n, actions_per_txn) == n > Max(1, actions_per_txn) + 1

\* the budget test of the loop (tnr.py line 59)
OverBudget(n, actions_per_txn) == n > Max(1, actions_per_txn)

\* mu tests that never fire / that fire only when mu grows by two or more
MuWorsened_Never(require_mu_nonworsening, pre, post) == FALSE
MuWorsened_ByTwo(require_mu_nonworsening, pre, post) ==
    require_mu_nonworsening /\ post > pre + 1

\* the mu test (tnr.py lines 85 and 106)
MuWorsened(require_mu_nonworsening, pre, post) == require_mu_nonworsening /\ post > pre

\* history of the attempt under way: a stage ran; a stage ran and ended the
\* attempt with outcome, leaving the working tree after
Ran(stage) == [trail EXCEPT ![Len(trail)].stages = Append(@, stage)]
RanOutcome(stage, outcome, after) ==
    [trail EXCEPT ![Len(trail)].stages = Append(@, stage),
                  ![Len(trail)].outcome = outcome,
                  ![Len(trail)].after = after]

\* gates.py run_static_checks: py_compile over the *.py files of the tree; every
\* outcome [ok, tree].  Compiling a file writes its bytecode under __pycache__.
run_static_checks(tree) ==
    IF \A f \in {ModPy, OtherPy, GonePy} : ~tree[f].present
        THEN {[ok |-> TRUE, tree |-> tree]}
        ELSE {[ok |-> TRUE, tree |-> [tree EXCEPT ![PycFile] = File(<<"pyc">>)]],
              [ok |-> FALSE, tree |-> [tree EXCEPT ![PycFile] = File(<<"pyc">>)]],
              [ok |-> FALSE, tree |-> tree]}

\* gates.py run_targeted_tests: the exit status of the test command
run_targeted_tests(tree) == BOOLEAN

\* a mu that reads a failing test run as 0 and a passing one as 1
TestMu_Swapped(ok) == IF ok THEN 1 ELSE 0

\* mu of a run of the targeted tests (tnr.py lines 54 and 99)
TestMu(ok) == IF ok THEN 0 ELSE 1

\* lines 45-56: checkpoint, allowed files, mu_pre
TxnEnter ==
    /\ pc = "entry"
    /\ head' = Len(commits)
    /\ IF config.targeted_tests
        THEN \E baseline_ok \in run_targeted_tests(work) :
                /\ logs' = IF baseline_ok THEN logs
                           ELSE Append(logs, "baseline targeted tests failing")
                /\ mu_pre' = TestMu(baseline_ok)
                /\ baseline' = IF baseline_ok THEN "passed" ELSE "failed"
        ELSE /\ logs' = logs
             /\ mu_pre' = _measure_mu(work, HeadTree)
             /\ baseline' = baseline
    /\ pc' = "loop"
    /\ UNCHANGED <<vvars, xvars, config, proposals, ignored, commits, work, attempt,
                   mu_candidate, mu_post, result, entry_work, trail>>

\* line 58: the next proposal is taken and is within the budget
NextProposal ==
    /\ pc = "loop"
    /\ attempt < Len(proposals)
    /\ ~OverBudget(attempt + 1, config.actions_per_txn)
    /\ attempt' = attempt + 1
    /\ pc' = "validate"
    /\ UNCHANGED <<vvars, xvars, config, proposals, ignored, commits, work, head, mu_pre,
                   mu_candidate, mu_post, logs, result, entry_work, baseline, trail>>

\* lines 59-61 and 114-115: the next proposal is over the budget
BudgetStop ==
    /\ pc = "loop"
    /\ attempt < Len(proposals)
    /\ OverBudget(attempt + 1, config.actions_per_txn)
    /\ attempt' = attempt + 1
    /\ logs' = Append(logs, "Reached transaction action budget; stopping attempts.")
    /\ work' = revert(work, commits[head].tree)
    /\ result' = Returned(FALSE, 0, mu_pre, mu_pre, logs')
    /\ pc' = "done"
    /\ UNCHANGED <<vvars, xvars, config, proposals, ignored, commits, head, mu_pre,
                   mu_candidate, mu_post, entry_work, baseline, trail>>

\* lines 114-115: the proposals are exhausted
Exhausted ==
    /\ pc = "loop"
    /\ attempt = Len(proposals)
    /\ work' = revert(work, commits[head].tree)
    /\ result' = Returned(FALSE, 0, mu_pre, mu_pre, logs)
    /\ pc' = "done"
    /\ UNCHANGED <<vvars, xvars, config, proposals, ignored, commits, head, attempt, mu_pre,
                   mu_candidate, mu_post, logs, entry_work, baseline, trail>>

\* a validation error that is logged but does not skip the proposal
AfterValidate_AlwaysApply(err) == "apply"

\* lines 71-75: 'continue' on a ValidationError, else on to vcs.apply_diff
AfterValidate(err) == IF err # "" THEN "loop" ELSE "apply"

\* lines 62-73: validate the proposal
Validate ==
    /\ pc = "validate"
    /\ LET r == ensure_within_limits(proposals[attempt],
                    {StepSpans[i].file : i \in 1..Len(StepSpans)},
                    MaxLocChanges, MaxFilesPerDiff, StepSpans, SlicePaddingLines, FALSE)
           t == Append(trail, [idx |-> attempt, before |-> work, after |-> work,
                               stages |-> <<"validate">>, outcome |-> "",
                               how |-> "", mu |-> NoMu])
       IN  IF r.err # ""
            THEN /\ logs' = Append(logs, "validation failed")
                 /\ trail' = [t EXCEPT ![Len(t)].outcome = "validation failed"]
                 /\ pc' = AfterValidate(r.err)
            ELSE /\ logs' = logs
                 /\ trail' = t
                 /\ pc' = AfterValidate(r.err)
    /\ UNCHANGED <<vvars, xvars, config, proposals, ignored, commits, work, head, attempt,
                   mu_pre, mu_candidate, mu_post, result, entry_work, baseline>>

\* lines 75-82: apply the proposal
Apply ==
    /\ pc = "apply"
    /\ \E o \in apply_diff(work, proposals[attempt]) :
        IF o.exc = "RuntimeError"
            THEN /\ logs' = Append(logs, "git apply failed")
                 /\ work' = revert(o.tree, commits[head].tree)
                 /\ trail' = [trail EXCEPT ![Len(trail)].stages = Append(@, "apply"),
                                           ![Len(trail)].outcome = "git apply failed",
                                           ![Len(trail)].after = work',
                                           ![Len(trail)].how = o.how]
                 /\ pc' = "loop"
                 /\ result' = result
        ELSE IF o.exc # ""
            THEN /\ logs' = logs
                 /\ work' = o.tree
                 /\ trail' = [trail EXCEPT ![Len(trail)].stages = Append(@, "apply"),
                                           ![Len(trail)].outcome = "raised",
                                           ![Len(trail)].after = work',
                                           ![Len(trail)].how = o.how]
                 /\ pc' = "raised"
                 /\ result' = Raised(o.exc, "apply_diff")
        ELSE /\ logs' = logs
             /\ work' = o.tree
             /\ trail' = [trail EXCEPT ![Len(trail)].stages = Append(@, "apply"),
                                       ![Len(trail)].how = o.how]
             /\ pc' = AfterApply
             /\ result' = result
    /\ mu_candidate' = NoMu
    /\ UNCHANGED <<vvars, xvars, config, proposals, ignored, commits, head, attempt, mu_pre,
                   mu_post, entry_work, baseline>>

\* lines 83-88: with targeted tests off, measure mu and compare it with mu_pre
MeasureCandidate ==
    /\ pc = "measure"
    /\ mu_candidate' = _measure_mu(work, HeadTree)
    /\ IF MuWorsened(config.require_mu_nonworsening, mu_pre, mu_candidate')
        THEN /\ logs' = Append(logs, "mu worsened")
             /\ work' = revert(work, commits[head].tree)
             /\ trail' = [RanOutcome("measure", "mu worsened", work')
                            EXCEPT ![Len(trail)].mu = mu_candidate']
             /\ pc' = "loop"
        ELSE /\ logs' = logs
             /\ work' = work
             /\ trail' = [Ran("measure") EXCEPT ![Len(trail)].mu = mu_candidate']
             /\ pc' = AfterMeasure
    /\ UNCHANGED <<vvars, xvars, config, proposals, ignored, commits, head, attempt, mu_pre,
                   mu_post, result, entry_work, baseline>>

\* lines 90-95: the static gate
StaticGate ==
    /\ pc = "static"
    /\ \E g \in run_static_checks(work) :
        IF ~g.ok
            THEN /\ logs' = Append(logs, "static checks failed")
                 /\ work' = revert(g.tree, commits[head].tree)
                 /\ trail' = RanOutcome("static", "static checks failed", work')
                 /\ pc' = "loop"
            ELSE /\ logs' = logs
                 /\ work' = g.tree
                 /\ trail' = Ran("static")
                 /\ pc' = AfterStatic
    /\ UNCHANGED <<vvars, xvars, config, proposals, ignored, commits, head, attempt, mu_pre,
                   mu_candidate, mu_post, result, entry_work, baseline>>

\* lines 97-103: the targeted tests gate
TargetedGate ==
    /\ pc = "targeted"
    /\ \E ok \in run_targeted_tests(work) :
        /\ mu_post' = TestMu(ok)
        /\ IF ~ok
            THEN /\ logs' = Append(logs, "targeted tests failed")
                 /\ work' = revert(work, commits[head].tree)
                 /\ trail' = RanOutcome("targeted", "targeted tests failed", work')
                 /\ pc' = "loop"
            ELSE /\ logs' = logs
                 /\ work' = work
                 /\ trail' = Ran("targeted")
                 /\ pc' = "mu_check"
    /\ UNCHANGED <<vvars, xvars, config, proposals, ignored, commits, head, attempt, mu_pre,
                   mu_candidate, result, entry_work, baseline>>

\* lines 104-105: with targeted tests off, mu_post is the candidate measure
SetMuPost ==
    /\ pc = "mu_post"
    /\ mu_post' = IF mu_candidate # NoMu THEN mu_candidate
                  ELSE _measure_mu(work, HeadTree)
    /\ pc' = "mu_check"
    /\ UNCHANGED <<vvars, xvars, config, proposals, ignored, commits, work, head, attempt,
                   mu_pre, mu_candidate, logs, result, entry_work, baseline, trail>>

\* lines 106-109: the mu non-worsening test
MuCheck ==
    /\ pc = "mu_check"
    /\ IF MuWorsened(config.require_mu_nonworsening, mu_pre, mu_post)
        THEN /\ logs' = Append(logs, "mu worsened")
             /\ work' = revert(work, commits[head].tree)
             /\ trail' = RanOutcome("mu_check", "mu worsened", work')
             /\ pc' = "loop"
        ELSE /\ logs' = logs
             /\ work' = work
             /\ trail' = Ran("mu_check")
             /\ pc' = "commit"
    /\ UNCHANGED <<vvars, xvars, config, proposals, ignored, commits, head, attempt, mu_pre,
                   mu_candidate, mu_post, result, entry_work, baseline>>

\* lines 111-112: vcs.commit (git add -A, git commit -m) and the return.  git
\* commit exits non-zero when nothing is staged, and _run_git raises.
Commit ==
    /\ pc = "commit"
    /\ LET staged == stage_all(work, HeadTree) IN
        IF staged = HeadTree
            THEN /\ commits' = commits
                 /\ trail' = RanOutcome("commit", "raised", work)
                 /\ result' = Raised("RuntimeError", "commit")
                 /\ pc' = "raised"
            ELSE /\ commits' = Append(commits, [message |-> <<"txn:", StepId>>,
                                                tree |-> staged])
                 /\ trail' = RanOutcome("commit", "committed", work)
                 /\ result' = Returned(TRUE, attempt, mu_pre, mu_post, logs)
                 /\ pc' = "done"
    /\ UNCHANGED <<vvars, xvars, config, proposals, ignored, work, head, attempt, mu_pre,
                   mu_candidate, mu_post, logs, entry_work, baseline>>

Next ==
    \/ TxnEnter
    \/ NextProposal
    \/ BudgetStop
    \/ Exhausted
    \/ Validate
    \/ Apply
    \/ MeasureCandidate
    \/ StaticGate
    \/ TargetedGate
    \/ SetMuPost
    \/ MuCheck
    \/ Commit

Spec == Init /\ [][Next]_vars

----------------------------------------------------------------------------
(* Inputs of a validator run *)

MaxLines == 3     \* longest diff made of arbitrary lines
MaxBody  == 3     \* longest hunk body of the single-hunk diffs

\* sequences over S of length 0..n
SeqUpTo(S, n) == UNION {[1..m -> S] : m \in 0..n}

StructLines ==
    {Hdr(ModPy, ModPy), Hdr(OtherPy, OtherPy), Hdr(OtherPy, ModPy),
     Hunk(1, 1), Hunk(2, 3), BadHunk, Ctx("x"), Del("x"), Add("x"),
     Del(OldHeaderText), Add(NewHeaderText), Other, Blank}

BodyLines ==
    {Ctx("x"), Del("def f"), Del("def g"), Del("x"),
     Add("def f"), Add("def g"), Add("x"), Add("def h::")}

\* diffs in the form git writes: 'diff --git', '--- a/<f>', '+++ b/<f>', one hunk
StandardDiffs ==
    {<<Hdr(ModPy, ModPy), Del(OldHeaderText), Add(NewHeaderText), h>> \o body :
        h \in {Hunk(1, 1), Hunk(2, 3)},
        body \in SeqUpTo({Ctx("x"), Del("x"), Add("x")}, MaxBody - 1)}

\* one file section with two hunks, a body line in each
TwoHunkDiffs ==
    {<<Hdr(ModPy, ModPy), h[1], b1, h[2], b2>> :
        h \in {<<Hunk(1, 1), Hunk(2, 3)>>, <<Hunk(2, 3), Hunk(1, 1)>>},
        b1 \in {Ctx("x"), Del("x"), Add("x")},
        b2 \in {Ctx("x"), Del("x"), Add("x")}}

\* one hunk that removes two def lines and adds the same two back
ReAddedDefs ==
    {<<Hdr(ModPy, ModPy), Hunk(1, 1), Del("def f"), Del("def g"), Add(a), Add(b)>> :
        a \in DefTexts, b \in DefTexts}

\* diffs of arbitrary lines, well-formed single-hunk diffs with arbitrary
\* bodies, diffs in the form git writes, and two-hunk diffs
DiffInputs ==
    SeqUpTo(StructLines, MaxLines)
    \cup {<<Hdr(ModPy, ModPy), h>> \o body :
            h \in {Hunk(1, 1), Hunk(2, 3)}, body \in SeqUpTo(BodyLines, MaxBody)}
    \cup StandardDiffs
    \cup TwoHunkDiffs
    \cup ReAddedDefs

\* the <<max_loc, max_files>> pairs of a validator run
LimitInputs == {<<2, 1>>, <<2, 2>>, <<12, 2>>}

\* the <<target_spans, padding_lines>> pairs of a validator run; AstSpan does
\* not require start_line <= end_line
WindowInputs ==
    {<<(<<Span(ModPy, 1, 2)>>), 0>>,
     <<(<<Span(ModPy, 1, 2)>>), 1>>,
     <<(<<Span(ModPy, 2, 2), Span(OtherPy, 1, 1)>>), 1>>,
     <<(<<Span(ModPy, 3, 1)>>), 0>>}

ParamInputs ==
    {[allowed_files |-> af, target_spans |-> win[1], padding_lines |-> win[2],
      max_loc |-> lim[1], max_files |-> lim[2], allow_api_change |-> api] :
        af \in {{ModPy}, {ModPy, OtherPy}},
        win \in WindowInputs,
        lim \in LimitInputs,
        api \in BOOLEAN}

Pending == [err |-> "<pending>", walk |-> WalkInit]

InitValidate ==
    /\ vdiff \in DiffInputs
    /\ vparams \in ParamInputs
    /\ vresult = Pending
    /\ TxnIdle
    /\ VcsIdle /\ DeriveIdle /\ CtlIdle /\ CliIdle /\ InvIdle

\* one call of ensure_within_limits on the chosen input
EnsureWithinLimits ==
    /\ vresult = Pending
    /\ vresult' = ensure_within_limits(vdiff, vparams.allowed_files, vparams.max_loc,
                                       vparams.max_files, vparams.target_spans,
                                       vparams.padding_lines, vparams.allow_api_change)
    /\ UNCHANGED <<vdiff, vparams, tvars, xvars>>

NextValidate == EnsureWithinLimits

SpecValidate == InitValidate /\ [][NextValidate]_vars

Accepted == vresult.err = ""
Rejected == vresult.err \notin {"", "<pending>"}

----------------------------------------------------------------------------
(* Reading a diff by position, independently of the walk *)

\* index of the last line before i whose class is in kinds, 0 when there is none
LastBefore(diff, i, kinds) ==
    LET S == {j \in 1..(i - 1) : diff[j].k \in kinds}
    IN  IF S = {} THEN 0 ELSE CHOOSE j \in S : \A m \in S : m <= j

\* index of the header of the hunk that line i is a body line of, 0 when there is none
HunkOf(diff, i) ==
    LET h == LastBefore(diff, i, {"hdr", "hunk", "bad_hunk"})
    IN  IF h # 0 /\ diff[h].k = "hunk" THEN h ELSE 0

\* file of the section that line i lies in
FileOf(diff, i) ==
    LET h == LastBefore(diff, i, {"hdr"})
    IN  IF h = 0 THEN NoFile ELSE diff[h].b

\* old-side / new-side line number of body line i, counted from its hunk header
OldLineNo(diff, i) ==
    diff[HunkOf(diff, i)].os
        + Cardinality({j \in (HunkOf(diff, i) + 1)..(i - 1) : diff[j].k \in {"ctx", "del"}})
NewLineNo(diff, i) ==
    diff[HunkOf(diff, i)].ns
        + Cardinality({j \in (HunkOf(diff, i) + 1)..(i - 1) : diff[j].k \in {"ctx", "add"}})

\* line n lies in [start_line - padding, end_line + padding] of a target span of file
InPaddedSpan(target_spans, padding, file, n) ==
    \E i \in 1..Len(target_spans) :
        /\ target_spans[i].file = file
        /\ target_spans[i].start_line - padding <= n
        /\ n <= target_spans[i].end_line + padding

\* line n lies in [max(1, start_line - padding), max(that, end_line + padding)]
\* of a target span of file
InClampedSpan(target_spans, padding, file, n) ==
    \E i \in 1..Len(target_spans) :
        /\ target_spans[i].file = file
        /\ Max(1, target_spans[i].start_line - padding) <= n
        /\ n <= Max(Max(1, target_spans[i].start_line - padding),
                    target_spans[i].end_line + padding)

\* the def lines a hunk removes / adds; h is the index of the hunk header
HunkBody(diff, h) ==
    {i \in (h + 1)..Len(diff) : LastBefore(diff, i, {"hdr", "hunk", "bad_hunk"}) = h
                                /\ diff[i].k \notin {"hdr", "hunk", "bad_hunk"}}
HunkRemovedDefs(diff, h) ==
    {diff[i].text : i \in {j \in HunkBody(diff, h) :
                              diff[j].k = "del" /\ StartsWithDef(diff[j].text)}}
HunkAddedDefs(diff, h) ==
    {diff[i].text : i \in {j \in HunkBody(diff, h) :
                              diff[j].k = "add" /\ StartsWithDef(diff[j].text)}}

\* every file a diff names, on the a/ side or on the b/ side of a 'diff --git' line
FilesNamed(diff) ==
    UNION {{diff[i].a, diff[i].b} : i \in {j \in 1..Len(diff) : diff[j].k = "hdr"}}

----------------------------------------------------------------------------
(* Claims about ensure_within_limits *)

C5_FilesAndLocWithinLimits ==
    /\ Accepted =>
        /\ FilesNamed(vdiff) \subseteq vparams.allowed_files
        /\ Cardinality(FilesNamed(vdiff)) <= vparams.max_files
        /\ Cardinality({i \in 1..Len(vdiff) : vdiff[i].k \in {"add", "del"}})
              <= vparams.max_loc
    /\ (vresult # Pending /\ ~(FilesNamed(vdiff) \subseteq vparams.allowed_files))
          => Rejected

\* C6: with allow_api_change false, a diff with a hunk whose removed def lines
\* and added def lines are both non-empty and unequal is rejected, whatever the
\* order of the lines in the hunk.
C6_SignatureChangeRejected ==
    (/\ vresult # Pending
     /\ ~vparams.allow_api_change
     /\ \E h \in 1..Len(vdiff) :
            /\ vdiff[h].k = "hunk"
            /\ HunkRemovedDefs(vdiff, h) # {}
            /\ HunkAddedDefs(vdiff, h) # {}
            /\ HunkRemovedDefs(vdiff, h) # HunkAddedDefs(vdiff, h))
        => Rejected

----------------------------------------------------------------------------
(* Claims about txn_patch *)

\* the working tree carries no change against the commit whose tree is
\* committed: tracked files as committed, no untracked file but ignored ones
IsClean(tree, committed) ==
    \A f \in Files :
        IF Tracked(committed, f) THEN tree[f] = committed[f]
        ELSE f \in ignored \/ ~tree[f].present

\* every content that replacing, hunk after hunk, an occurrence of the old
\* side of the hunk by its new side can give
Occurrences(content, pre) ==
    {p \in 1..(Len(content) + 1) :
        /\ p + Len(pre) - 1 <= Len(content)
        /\ SubSeq(content, p, p + Len(pre) - 1) = pre}
RECURSIVE Patched(_, _)
Patched(content, hunks) ==
    IF hunks = <<>> THEN {content}
    ELSE UNION {Patched(ApplyAt(content, p, Head(hunks)), Tail(hunks)) :
                    p \in Occurrences(content, Head(hunks).pre)}

\* the tree of a commit holds, for every file section of diff, the file of
\* the tree before with the hunks of the section carried out
CommitContainsDiff(before, committed, diff) ==
    \A i \in 1..Len(Sections(diff)) :
        LET s == Sections(diff)[i] IN
            /\ before[s.a].present
            /\ committed[s.b].present
            /\ committed[s.b].lines \in Patched(before[s.a].lines, Hunks(s.lines))

HasLog(lg, text) == \E k \in 1..Len(lg) : lg[k] = text
RanStage(t, stage) == \E k \in 1..Len(t.stages) : t.stages[k] = stage

FailureOutcomes ==
    {"validation failed", "git apply failed", "mu worsened",
     "static checks failed", "targeted tests failed"}

\* C1: when txn_patch returns committed=False, the working tree (tracked and
\* untracked files) is identical to its state when txn_patch was entered.
C1_FailureLeavesTreeAsEntered ==
    (result.kind = "returned" /\ ~result.committed) => work = entry_work

\* C2: when txn_patch returns committed=True, HEAD has advanced by exactly one
\* commit, its message is 'txn:' followed by the step id, and the commit
\* contains the changes of the returned applied_diff.
C2_CommitOfAppliedDiff ==
    (result.kind = "returned" /\ result.committed) =>
        /\ Len(commits) = head + 1
        /\ commits[Len(commits)].message = <<"txn:", StepId>>
        /\ CommitContainsDiff(trail[Len(trail)].before, HeadTree,
                              proposals[result.applied_diff])

\* C3: with require_mu_nonworsening true, no result with committed=True has
\* mu_post greater than mu_pre, with targeted tests on and with them off.
C3_CommittedMuNotWorse ==
    (result.kind = "returned" /\ result.committed /\ config.require_mu_nonworsening)
        => result.mu_post <= result.mu_pre

\* a commit under require_mu_nonworsening, targeted tests off, of a proposal
\* that changes the tree measurably
C3_Witness ==
    /\ result.kind = "returned" /\ result.committed
    /\ config.require_mu_nonworsening /\ ~config.targeted_tests
    /\ result.mu_post >= 1

\* C7 as stated: txn_patch attempts (validates or applies) at most
\* actions_per_txn proposals, for every value of actions_per_txn.
C7_AttemptsWithinActionsPerTxn == Len(trail) <= config.actions_per_txn

\* C7: txn_patch attempts at most max(1, actions_per_txn) proposals; proposals
\* rejected by validation count against this budget.
C7_AttemptsWithinBudget == Len(trail) <= Max(1, config.actions_per_txn)

\* the budget stops txn_patch with proposals left, after an attempt that
\* validation rejected
C7_Witness ==
    /\ pc = "done"
    /\ Len(proposals) > Len(trail)
    /\ Len(trail) = Max(1, config.actions_per_txn)
    /\ trail[1].outcome = "validation failed"

\* C8: txn_patch commits the first proposal, in order, that passes validation,
\* apply, every enabled gate and the mu check: every proposal before it failed
\* a stage and was rolled back, and no proposal after it is validated or applied.
C8_FirstPassingProposalCommitted ==
    (result.kind = "returned" /\ result.committed) =>
        /\ Len(trail) = result.applied_diff
        /\ \A j \in 1..Len(trail) : trail[j].idx = j
        /\ trail[Len(trail)].outcome = "committed"
        /\ \A j \in 1..(Len(trail) - 1) :
            /\ trail[j].outcome \in FailureOutcomes
            /\ IF RanStage(trail[j], "apply")
                THEN IsClean(trail[j].after, commits[head].tree)
                ELSE trail[j].after = trail[j].before

\* the second proposal is committed after the first was applied and failed a gate
C8_Witness ==
    /\ result.kind = "returned" /\ result.committed
    /\ result.applied_diff = 2
    /\ RanStage(trail[1], "apply")
    /\ trail[1].outcome \in FailureOutcomes

\* C9: a failure of apply_diff is logged as 'git apply failed', reverted, and
\* the loop goes on with the next proposal; it never leaves txn_patch as an
\* exception.
C9_ApplyFailureNeverPropagates ==
    /\ ~(result.kind = "raised" /\ result.raised_by = "apply_diff")
    /\ \A j \in 1..Len(trail) :
        trail[j].outcome = "git apply failed" =>
            /\ HasLog(logs, "git apply failed")
            /\ IsClean(trail[j].after, commits[head].tree)

\* C10: with require_mu_nonworsening true and targeted tests off, a proposal
\* whose application makes the measured mu exceed mu_pre is rolled back and
\* not committed, and the logs of the result contain 'mu worsened'.
C10_MuWorseningRolledBack ==
    (config.require_mu_nonworsening /\ ~config.targeted_tests) =>
        \A j \in 1..Len(trail) :
            (trail[j].mu # NoMu /\ trail[j].mu > mu_pre) =>
                /\ trail[j].outcome = "mu worsened"
                /\ IsClean(trail[j].after, commits[head].tree)
                /\ HasLog(logs, "mu worsened")
                /\ result.kind = "returned" =>
                    /\ HasLog(result.logs, "mu worsened")
                    /\ ~(result.committed /\ result.applied_diff = j)

\* txn_patch has returned after an attempt whose measured mu exceeded mu_pre
C10_Witness ==
    /\ result.kind = "returned"
    /\ config.require_mu_nonworsening /\ ~config.targeted_tests
    /\ \E j \in 1..Len(trail) : trail[j].mu # NoMu /\ trail[j].mu > mu_pre

C12_TargetedMu ==
    (config.targeted_tests /\ pc # "entry") =>
        /\ baseline = "passed" => mu_pre = 0
        /\ baseline = "failed" => mu_pre = 1
        /\ baseline \in {"passed", "failed"}
        /\ (result.kind = "returned" /\ result.committed) =>
            /\ result.mu_post = 0
            /\ result.mu_pre = mu_pre

\* a commit with targeted tests on after a failing baseline run
C12_Witness ==
    /\ config.targeted_tests
    /\ baseline = "failed"
    /\ result.kind = "returned" /\ result.committed

----------------------------------------------------------------------------
(* controller.py: _derive_test_cmd.  A node id is the sequence of its parts *)
(* between '::' separators: the empty node id is <<"">>, 't/a.py::' is      *)
(* <<"t/a.py", "">>.                                                        *)

MaxTests == 3     \* longest list of failing tests

NodeIds ==
    {<<"">>, <<"t/a.py", "test_a">>, <<"t/b.py", "test_a">>, <<"test_b">>,
     <<"t/a.py", "">>, <<"t/a.py", "K", "test_c">>}

\* the order of Python on the names that occur
NameRank == [n \in {"", "test_a", "test_b", "test_c"} |->
                IF n = "" THEN 0 ELSE IF n = "test_a" THEN 1
                ELSE IF n = "test_b" THEN 2 ELSE 3]

\* a test command: the text of ctx.test_cmd, or pytest -q -k "<expr>" with expr
\* the names that ' or ' joins
Cmd(text) == [k |-> "cmd", text |-> text, expr |-> <<>>]
PytestK(expr) == [k |-> "pytest -q -k", text |-> "", expr |-> expr]

RECURSIVE TrailingNames(_)
\* lines 46-54: the non-empty last parts of the non-empty node ids, in order
TrailingNames(failing_tests) ==
    IF failing_tests = <<>> THEN <<>>
    ELSE LET nodeid == Head(failing_tests)
             name == nodeid[Len(nodeid)]
         IN  IF nodeid = <<"">> \/ name = ""
                 THEN TrailingNames(Tail(failing_tests))
                 ELSE <<name>> \o TrailingNames(Tail(failing_tests))

\* a join that keeps the names as they come
SortedNames_AsGiven(names) == names

RECURSIVE SortedNamesOf(_)
SortedNamesOf(S) ==
    IF S = {} THEN <<>>
    ELSE LET least == CHOOSE n \in S : \A o \in S : NameRank[n] <= NameRank[o]
         IN  <<least>> \o SortedNamesOf(S \ {least})

\* line 56: sorted(set(names))
SortedNames(names) == SortedNamesOf({names[i] : i \in 1..Len(names)})

\* _derive_test_cmd
_derive_test_cmd(targeted_tests, failing_tests, test_cmd) ==
    IF targeted_tests /\ failing_tests # <<>> /\ TrailingNames(failing_tests) # <<>>
        THEN PytestK(SortedNames(TrailingNames(failing_tests)))
        ELSE Cmd(test_cmd)

\* lines 231-235 of run_controller: the command the step runs with
StepTestCmd(targeted_tests, failing_tests, test_cmd) ==
    LET derived_cmd == _derive_test_cmd(targeted_tests, failing_tests, test_cmd)
    IN  IF derived_cmd # Cmd("") /\ derived_cmd # Cmd(test_cmd)
            THEN derived_cmd ELSE Cmd(test_cmd)

InitDerive ==
    /\ derive \in [pc : {"call"}, targeted_tests : BOOLEAN,
                   failing_tests : SeqUpTo(NodeIds, MaxTests),
                   test_cmd : {"", "make test"}, test_cmd_used : {Cmd("")}]
    /\ vdiff = <<>>
    /\ vparams = [allowed_files |-> {}, target_spans |-> <<>>, padding_lines |-> 0,
                  max_loc |-> 0, max_files |-> 0, allow_api_change |-> FALSE]
    /\ vresult = Pending
    /\ TxnIdle
    /\ VcsIdle /\ CtlIdle /\ CliIdle /\ InvIdle

DeriveTestCmd ==
    /\ derive.pc = "call"
    /\ derive' = [derive EXCEPT !.pc = "done",
                                !.test_cmd_used = StepTestCmd(derive.targeted_tests,
                                                      derive.failing_tests, derive.test_cmd)]
    /\ UNCHANGED <<vvars, tvars, vcsrun, ctl, cli, inv>>

NextDerive == DeriveTestCmd

SpecDerive == InitDerive /\ [][NextDerive]_vars

\* the last parts of the non-empty node ids of a list of failing tests
LastParts(failing_tests) ==
    {failing_tests[i][Len(failing_tests[i])] :
        i \in {j \in 1..Len(failing_tests) : failing_tests[j] # <<"">>}}

\* expr lists exactly the names of S, in increasing order, each once
JoinsSorted(expr, S) ==
    /\ {expr[i] : i \in 1..Len(expr)} = S
    /\ \A i, j \in 1..Len(expr) : i < j => NameRank[expr[i]] < NameRank[expr[j]]

\* C13 as stated: with targeted tests on and at least one non-empty node id in
\* failing_tests, the command is pytest -q -k "E" with E the deduplicated,
\* sorted trailing names of the failing tests; otherwise it is ctx.test_cmd.
C13_NarrowedCommandForNonEmptyIds ==
    derive.pc = "done" =>
        IF derive.targeted_tests /\ LastParts(derive.failing_tests) # {}
            THEN /\ derive.test_cmd_used.k = "pytest -q -k"
                 /\ JoinsSorted(derive.test_cmd_used.expr, LastParts(derive.failing_tests))
            ELSE derive.test_cmd_used = Cmd(derive.test_cmd)

\* C13: with targeted tests on and at least one node id whose trailing name is
\* not empty, the command is pytest -q -k "E" with E the deduplicated, sorted
\* non-empty trailing names, whatever the order and multiplicity of
\* failing_tests; otherwise (a node id that ends with '::' included) it is
\* ctx.test_cmd.
C13_NarrowedCommandForNonEmptyNames ==
    derive.pc = "done" =>
        IF derive.targeted_tests /\ LastParts(derive.failing_tests) \ {""} # {}
            THEN /\ derive.test_cmd_used.k = "pytest -q -k"
                 /\ JoinsSorted(derive.test_cmd_used.expr,
                                LastParts(derive.failing_tests) \ {""})
            ELSE derive.test_cmd_used = Cmd(derive.test_cmd)

\* a narrowed command from failing tests given out of order, with a repeated
\* name and with an empty node id
C13_Witness ==
    /\ derive.pc = "done"
    /\ derive.targeted_tests
    /\ derive.failing_tests = <<<<"test_b">>, <<"t/b.py", "test_a">>, <<"t/a.py", "test_a">>>>
    /\ derive.test_cmd_used = PytestK(<<"test_a", "test_b">>)

----------------------------------------------------------------------------
(* controller.py: run_controller.  The stages before the step loop (recall, *)
(* probe, planning) give the plan or raise; propose gives a list of diffs   *)
(* or raises; txn_patch runs as the transaction modelled above.            *)

MaxPlan    == 3     \* longest plan the planner returns
MaxSteps   == 3     \* largest config.search.max_steps
MaxRetries == 2     \* largest config.search.retries_per_step
MaxFinalists == 3   \* largest config.search.finalists

Finalists == 2      \* config.search.finalists

PUndo == <<Hdr(ModPy, ModPy), Hunk(1, 1), Ctx("def f"), Del("z"), Add("x"), Ctx("y")>>

\* the lists of diffs propose returns
ProposerOutputs ==
    {<<>>, <<PFix>>, <<PUndo>>, <<PApi>>, <<PGone>>, <<PApi, PApi, PFix>>}

\* the gates and tnr sections of the configurations of a controller run
ControllerConfigs ==
    {[static |-> FALSE, targeted_tests |-> FALSE,
      require_mu_nonworsening |-> FALSE, actions_per_txn |-> 1],
     [static |-> FALSE, targeted_tests |-> FALSE,
      require_mu_nonworsening |-> TRUE, actions_per_txn |-> 3],
     [static |-> TRUE, targeted_tests |-> TRUE,
      require_mu_nonworsening |-> TRUE, actions_per_txn |-> 3]}

RetriesPerStep == 1     \* config.search.retries_per_step as shipped

Search(max_steps, retries_per_step) ==
    [max_steps |-> max_steps, retries_per_step |-> retries_per_step, finalists |-> Finalists]

\* the plans of the planner: step ids in plan order
PlanInputs == {[i \in 1..n |-> i] : n \in 0..MaxPlan}

\* the runs of the controller: one-step plans under every retries_per_step
\* and every configuration, longer plans under the shipped
\* retries_per_step with the gates off, and one-step plans under every
\* finalists from 0 up
RunInputs ==
    {[search |-> Search(1, r), plan |-> <<1>>, config |-> c] :
        r \in 0..MaxRetries, c \in ControllerConfigs}
    \cup {[search |-> Search(n, RetriesPerStep), plan |-> p, config |-> c] :
            n \in 0..MaxSteps, p \in PlanInputs,
            c \in {d \in ControllerConfigs : ~d.static /\ ~d.targeted_tests}}
    \cup {[search |-> [Search(1, RetriesPerStep) EXCEPT !.finalists = f],
           plan |-> <<1>>, config |-> c] :
            f \in 0..MaxFinalists, c \in ControllerConfigs}

\* a shortlist that keeps every proposal
Shortlist_All(props, finalists) == props

\* a retry policy that takes any log for a recoverable one
Recoverable_AnyLog(last_logs) == last_logs # <<>>

RecoverableMarkers ==
    {"validation failed", "git apply failed", "static checks failed",
     "targeted tests failed"}

\* lines 265-268: some log carries a recoverable marker
Recoverable(last_logs) ==
    \E k \in 1..Len(last_logs) : last_logs[k] \in RecoverableMarkers

\* lines 244-245 and 272-273: proposals[:max(1, finalists)]
Shortlist(props, finalists) == SubSeq(props, 1, Min(Len(props), Max(1, finalists)))

\* Python's plan[:max_steps] for max_steps >= 0
Truncate(plan, max_steps) == SubSeq(plan, 1, Min(Len(plan), max_steps))

\* vcs.diff_between: the patch from one committed tree to another, empty when
\* the trees are equal
EmptyPatch == [k |-> "empty", files |-> {}, diff |-> <<>>]
diff_between(base, head_tree) ==
    IF base = head_tree THEN EmptyPatch
    ELSE [k |-> "git diff",
          files |-> {<<f, base[f], head_tree[f]>> : f \in {g \in Files : base[g] # head_tree[g]}},
          diff |-> <<>>]
ProposalPatch(unified_diff) == [k |-> "proposal", files |-> {}, diff |-> unified_diff]

\* the TransactionResult a returned txn_patch hands over; applied_diff is the
\* unified diff of the proposal, <<>> for None
TransactionOf(r, props) ==
    [committed |-> r.committed,
     applied_diff |-> IF r.applied_diff = 0 THEN <<>> ELSE props[r.applied_diff],
     mu_pre |-> r.mu_pre, mu_post |-> r.mu_post, logs |-> r.logs]

CtlInit(search, plan) ==
    [pc |-> "start", search |-> search, planned |-> plan, plan |-> <<>>,
     baseline |-> 0, step |-> 0, attempts |-> 0, attempt |-> 0,
     committed |-> FALSE, last_logs |-> <<>>, transactions |-> <<>>,
     final_patch |-> EmptyPatch, exc |-> "",
     begun |-> <<>>, calls |-> <<>>, events |-> <<>>, clean_at_baseline |-> FALSE]

\* run_controller is entered on a clean tree, or, for the plans of at most
\* one step, on a tree with an uncommitted edit or an untracked file
InitController ==
    /\ \E run \in RunInputs :
        /\ ctl = CtlInit(run.search, run.plan)
        /\ config = run.config
        /\ work \in (IF Len(run.plan) <= 1 THEN EntryTrees ELSE {BaseTree})
    /\ vdiff = <<>>
    /\ vparams = [allowed_files |-> {}, target_spans |-> <<>>, padding_lines |-> 0,
                  max_loc |-> 0, max_files |-> 0, allow_api_change |-> FALSE]
    /\ vresult = Pending
    /\ proposals = <<>>
    /\ ignored = {}
    /\ commits = <<[message |-> <<"init">>, tree |-> BaseTree]>>
    /\ pc = "idle"
    /\ head = 0
    /\ attempt = 0
    /\ mu_pre = NoMu /\ mu_candidate = NoMu /\ mu_post = NoMu
    /\ logs = <<>>
    /\ result = NoResult
    /\ entry_work = BaseTree
    /\ baseline = "none"
    /\ trail = <<>>
    /\ VcsIdle /\ DeriveIdle /\ CliIdle /\ InvIdle

\* the call of tnr.txn_patch(ctx, step, shortlisted, config=cfg): the
\* transaction starts with fresh locals
EnterTxnPatch(shortlisted) ==
    /\ proposals' = shortlisted
    /\ pc' = "entry"
    /\ attempt' = 0
    /\ mu_pre' = NoMu /\ mu_candidate' = NoMu /\ mu_post' = NoMu
    /\ logs' = <<>>
    /\ result' = NoResult
    /\ entry_work' = work
    /\ baseline' = "none"
    /\ trail' = <<>>
    /\ UNCHANGED <<config, ignored, commits, work, head>>

\* what proposer.propose gives: a list of diffs, or a ValueError on output it
\* cannot read
ProposeOutcomes ==
    {[ok |-> TRUE, proposals |-> ps] : ps \in ProposerOutputs}
    \cup {[ok |-> FALSE, proposals |-> <<>>]}

CtlRaise(exc) == ctl' = [ctl EXCEPT !.pc = "raised", !.exc = exc]

\* what the controller does for the step it is at: a call of the proposer, a
\* call of txn_patch, a TransactionResult received (committed or not)
Event(what) == [step |-> ctl.step, what |-> what]

\* a loop that goes on after a committed transaction
AfterTxn_NoBreak(committed) == "attempt"

\* lines 259-261: if result.committed: committed = True; break
AfterTxn(committed) == IF committed THEN "retry" ELSE "attempt"

\* lines 68-225: baseline checkpoint, recall, probes, planning; the plan is
\* cut to max_steps; a stage that raises ends the run.  clean_at_baseline
\* notes whether git status showed nothing at the checkpoint
CtlStart ==
    /\ ctl.pc = "start"
    /\ \E stage_ok \in BOOLEAN :
        IF stage_ok
            THEN ctl' = [ctl EXCEPT !.pc = "step",
                                    !.baseline = Len(commits),
                                    !.clean_at_baseline = (stage_all(work, HeadTree) = HeadTree),
                                    !.plan = Truncate(ctl.planned, ctl.search.max_steps)]
            ELSE CtlRaise("stage error")
    /\ UNCHANGED <<vvars, tvars, vcsrun, derive, cli, inv>>

\* lines 227-240: the next step of the plan begins, or the loop is over
CtlStepBegin ==
    /\ ctl.pc = "step"
    /\ IF ctl.step < Len(ctl.plan)
        THEN ctl' = [ctl EXCEPT !.pc = "attempt",
                                !.step = ctl.step + 1,
                                !.attempts = Max(1, ctl.search.retries_per_step),
                                !.attempt = 0,
                                !.committed = FALSE,
                                !.last_logs = <<>>,
                                !.begun = Append(ctl.begun, ctl.plan[ctl.step + 1])]
        ELSE ctl' = [ctl EXCEPT !.pc = "final"]
    /\ UNCHANGED <<vvars, tvars, vcsrun, derive, cli, inv>>

\* lines 241-255: one round of for _attempt in range(attempts): propose,
\* shortlist, enter txn_patch
CtlAttempt ==
    /\ ctl.pc = "attempt"
    /\ IF ctl.attempt < ctl.attempts
        THEN \E out \in ProposeOutcomes :
                IF ~out.ok
                    THEN /\ ctl' = [ctl EXCEPT !.pc = "raised", !.exc = "ValueError",
                                               !.events = Append(@, Event("propose"))]
                         /\ UNCHANGED tvars
                ELSE IF Shortlist(out.proposals, ctl.search.finalists) = <<>>
                    THEN /\ ctl' = [ctl EXCEPT !.attempt = ctl.attempt + 1,
                                               !.events = Append(@, Event("propose"))]
                         /\ UNCHANGED tvars
                ELSE /\ ctl' = [ctl EXCEPT !.pc = "txn",
                                           !.attempt = ctl.attempt + 1,
                                           !.events = @ \o <<Event("propose"), Event("txn_patch")>>,
                                           !.calls = Append(ctl.calls, [step |-> ctl.step, how |-> "attempt", after_logs |-> ctl.last_logs])]
                     /\ EnterTxnPatch(Shortlist(out.proposals, ctl.search.finalists))
        ELSE ctl' = [ctl EXCEPT !.pc = "retry"] /\ UNCHANGED tvars
    /\ UNCHANGED <<vvars, vcsrun, derive, cli, inv>>

\* lines 256-261: txn_patch returned inside the loop
CtlTxnReturned ==
    /\ ctl.pc = "txn"
    /\ pc = "done"
    /\ ctl' = [ctl EXCEPT !.pc = AfterTxn(result.committed),
                          !.events = Append(@, Event(IF result.committed THEN "committed" ELSE "failed")),
                          !.transactions = Append(ctl.transactions, TransactionOf(result, proposals)),
                          !.last_logs = result.logs,
                          !.committed = result.committed]
    /\ UNCHANGED <<vvars, tvars, vcsrun, derive, cli, inv>>

\* lines 250 and 276: an exception of txn_patch leaves run_controller
CtlTxnRaised ==
    /\ ctl.pc \in {"txn", "txn_retry"}
    /\ pc = "raised"
    /\ CtlRaise(result.exc)
    /\ UNCHANGED <<vvars, tvars, vcsrun, derive, cli, inv>>

\* lines 263-276: the reason-aware retry
CtlRetry ==
    /\ ctl.pc = "retry"
    /\ IF ~ctl.committed /\ ctl.last_logs # <<>> /\ Recoverable(ctl.last_logs)
        THEN \E out \in ProposeOutcomes :
                IF ~out.ok
                    THEN /\ ctl' = [ctl EXCEPT !.pc = "raised", !.exc = "ValueError",
                                               !.events = Append(@, Event("propose"))]
                         /\ UNCHANGED tvars
                ELSE IF Shortlist(out.proposals, ctl.search.finalists) = <<>>
                    THEN /\ ctl' = [ctl EXCEPT !.pc = "step",
                                               !.events = Append(@, Event("propose"))]
                         /\ UNCHANGED tvars
                ELSE /\ ctl' = [ctl EXCEPT !.pc = "txn_retry",
                                           !.events = @ \o <<Event("propose"), Event("txn_patch")>>,
                                           !.calls = Append(ctl.calls, [step |-> ctl.step, how |-> "retry", after_logs |-> ctl.last_logs])]
                     /\ EnterTxnPatch(Shortlist(out.proposals, ctl.search.finalists))
        ELSE ctl' = [ctl EXCEPT !.pc = "step"] /\ UNCHANGED tvars
    /\ UNCHANGED <<vvars, vcsrun, derive, cli, inv>>

\* lines 277-280: txn_patch returned from the retry
CtlRetryReturned ==
    /\ ctl.pc = "txn_retry"
    /\ pc = "done"
    /\ ctl' = [ctl EXCEPT !.pc = "step",
                          !.events = Append(@, Event(IF result.committed THEN "committed" ELSE "failed")),
                          !.transactions = Append(ctl.transactions, TransactionOf(result, proposals)),
                          !.committed = result.committed]
    /\ UNCHANGED <<vvars, tvars, vcsrun, derive, cli, inv>>

\* a result patch without the fallback
FinalPatch_NoFallback(base_tree, head_tree, transactions) == diff_between(base_tree, head_tree)

\* lines 296-300: the patch of the result
FinalPatch(base_tree, head_tree, transactions) ==
    IF diff_between(base_tree, head_tree) # EmptyPatch
        THEN diff_between(base_tree, head_tree)
    ELSE IF transactions # <<>> /\ transactions[Len(transactions)].applied_diff # <<>>
        THEN ProposalPatch(transactions[Len(transactions)].applied_diff)
    ELSE EmptyPatch

\* lines 283-307: the final patch and the return
CtlFinish ==
    /\ ctl.pc = "final"
    /\ ctl' = [ctl EXCEPT !.pc = "done",
                          !.final_patch = FinalPatch(commits[ctl.baseline].tree, HeadTree, ctl.transactions)]
    /\ UNCHANGED <<vvars, tvars, vcsrun, derive, cli, inv>>

NextController ==
    \/ CtlStart
    \/ CtlStepBegin
    \/ CtlAttempt
    \/ CtlTxnReturned
    \/ CtlTxnRaised
    \/ CtlRetry
    \/ CtlRetryReturned
    \/ CtlFinish
    \/ TxnEnter
    \/ NextProposal
    \/ BudgetStop
    \/ Exhausted
    \/ Validate
    \/ Apply
    \/ MeasureCandidate
    \/ StaticGate
    \/ TargetedGate
    \/ SetMuPost
    \/ MuCheck
    \/ Commit

SpecController == InitController /\ [][NextController]_vars

CtlTypeOK == ctl.pc \in {"start", "step", "attempt", "txn", "retry", "txn_retry", "final", "done", "raised"}

----------------------------------------------------------------------------
(* Claims about run_controller.                                            *)

\* the entries of txn_patch for step s, in order, as positions of ctl.calls
CallsOf(s) == {k \in 1..Len(ctl.calls) : ctl.calls[k].step = s}
EarlierCallsOf(k) == {j \in 1..(k - 1) : ctl.calls[j].step = ctl.calls[k].step}
CarriesMarker(lg) ==
    \E k \in 1..Len(lg) :
        lg[k] \in {"validation failed", "git apply failed", "static checks failed",
                   "targeted tests failed"}

\* C14 as stated: for each plan step txn_patch is entered again at most once
\* after a failed transaction, and only when the logs of that transaction
\* carry a recoverable marker.
C14_OneReentryOnMarker ==
    \A k \in 1..Len(ctl.calls) :
        /\ Cardinality(EarlierCallsOf(k)) <= 1
        /\ EarlierCallsOf(k) # {} => CarriesMarker(ctl.calls[k].after_logs)

\* C14 amended: for each plan step the loop enters txn_patch up to
\* max(1, retries_per_step) times, whatever the logs, until a transaction
\* commits; after the loop txn_patch is entered at most once more, and only
\* when the step has not committed and the logs of its last transaction carry
\* a recoverable marker.  With retries_per_step <= 1 this is one entry and at
\* most one re-entry on a marker.
C14_ReentryWithinRetriesAndMarker ==
    \A k \in 1..Len(ctl.calls) :
        LET c == ctl.calls[k]
            earlier == EarlierCallsOf(k)
        IN  /\ c.how = "attempt" =>
                /\ Cardinality(earlier) < Max(1, ctl.search.retries_per_step)
                /\ \A j \in earlier : ctl.calls[j].how = "attempt"
            /\ c.how = "retry" =>
                /\ CarriesMarker(c.after_logs)
                /\ \A j \in earlier : ctl.calls[j].how = "attempt"
                /\ Cardinality(earlier) <= Max(1, ctl.search.retries_per_step)
            /\ ctl.search.retries_per_step <= 1 =>
                /\ Cardinality(earlier) <= 1
                /\ earlier # {} => CarriesMarker(c.after_logs)

\* a step entered three times: twice by the loop, once by the retry
C14_Witness ==
    /\ ctl.search.retries_per_step = 2
    /\ Len(ctl.calls) = 3
    /\ ctl.calls[3].how = "retry"
    /\ ctl.pc = "done"

IsPrefix(a, b) == Len(a) <= Len(b) /\ a = SubSeq(b, 1, Len(a))

\* the run is over and no stage outside the executor (recall, probes,
\* planner, proposer) ended it with an error of its own
RunOver == ctl.pc = "done" \/ (ctl.pc = "raised" /\ ctl.exc \notin {"stage error", "ValueError"})

\* C15: run_controller attempts every step of the plan cut to its first
\* max_steps entries, in plan order, whether or not the step before committed,
\* and attempts no step beyond them.
C15_EveryStepOfTruncatedPlanAttempted ==
    /\ ctl.pc # "idle" => IsPrefix(ctl.begun, SubSeq(ctl.planned, 1, Min(Len(ctl.planned), ctl.search.max_steps)))
    /\ RunOver => ctl.begun = SubSeq(ctl.planned, 1, Min(Len(ctl.planned), ctl.search.max_steps))

\* the part of C15 that holds: the steps begun are always the first steps of
\* the truncated plan, in order, and a run that returns has begun them all
C15_StepsInOrderWithinMaxSteps ==
    /\ ctl.pc # "idle" => IsPrefix(ctl.begun, SubSeq(ctl.planned, 1, Min(Len(ctl.planned), ctl.search.max_steps)))
    /\ ctl.pc = "done" => ctl.begun = SubSeq(ctl.planned, 1, Min(Len(ctl.planned), ctl.search.max_steps))

\* the cumulative diff from the baseline checkpoint to HEAD
Cumulative == diff_between(commits[ctl.baseline].tree, HeadTree)
\* the transactions that applied a proposal, as positions of ctl.transactions
Applying == {k \in 1..Len(ctl.transactions) : ctl.transactions[k].applied_diff # <<>>}
LastOf(S) == CHOOSE k \in S : \A j \in S : j <= k

\* C16 as stated: final_patch is the cumulative diff baseline..HEAD; only when
\* that is empty and a transaction exists it is the unified diff of the last
\* proposal any transaction applied.
C16_FallbackToLastAppliedProposal ==
    ctl.pc = "done" =>
        IF Cumulative # EmptyPatch THEN ctl.final_patch = Cumulative
        ELSE IF Applying # {}
            THEN ctl.final_patch = [k |-> "proposal", files |-> {}, diff |-> ctl.transactions[LastOf(Applying)].applied_diff]
        ELSE ctl.final_patch = EmptyPatch

\* C16 amended: final_patch is the cumulative diff baseline..HEAD; only when
\* that is empty and a transaction exists the last transaction is consulted:
\* its applied diff is the patch when it committed, and the patch stays
\* empty when it did not, whatever earlier transactions applied.
C16_FallbackToLastTransaction ==
    ctl.pc = "done" =>
        IF Cumulative # EmptyPatch THEN ctl.final_patch = Cumulative
        ELSE IF ctl.transactions # <<>> /\ Len(ctl.transactions) \in Applying
            THEN ctl.final_patch = [k |-> "proposal", files |-> {}, diff |-> ctl.transactions[Len(ctl.transactions)].applied_diff]
        ELSE ctl.final_patch = EmptyPatch

\* two commits that cancel: the cumulative diff is empty and the patch is the
\* diff of the last transaction
C16_Witness ==
    /\ ctl.pc = "done"
    /\ Cumulative = EmptyPatch
    /\ Len(commits) > ctl.baseline
    /\ ctl.final_patch.k = "proposal"

----------------------------------------------------------------------------
(* main.py: the CLI.  main parses the arguments, reads the task file, loads *)
(* the configuration, runs the controller and writes the patch.            *)

NoFile_Out == [written |-> FALSE, patch |-> EmptyPatch]

\* what the command line, the task file and the configuration file are
MainInputs ==
    {[args_ok |-> a, task_ok |-> t, config_ok |-> c, run |-> run] :
        a \in BOOLEAN, t \in BOOLEAN, c \in BOOLEAN, run \in RunInputs}

\* before Config.load the configuration is the default one
InitMain ==
    /\ cli \in {[pc |-> "parse", inputs |-> i, out |-> NoFile_Out, exit |-> "", exc |-> ""] : i \in MainInputs}
    /\ config \in {c \in ControllerConfigs : c.static}
    /\ vdiff = <<>>
    /\ vparams = [allowed_files |-> {}, target_spans |-> <<>>, padding_lines |-> 0,
                  max_loc |-> 0, max_files |-> 0, allow_api_change |-> FALSE]
    /\ vresult = Pending
    /\ proposals = <<>>
    /\ ignored = {}
    /\ commits = <<[message |-> <<"init">>, tree |-> BaseTree]>>
    /\ work = BaseTree
    /\ pc = "idle"
    /\ head = 0
    /\ attempt = 0
    /\ mu_pre = NoMu /\ mu_candidate = NoMu /\ mu_post = NoMu
    /\ logs = <<>>
    /\ result = NoResult
    /\ entry_work = BaseTree
    /\ baseline = "none"
    /\ trail = <<>>
    /\ VcsIdle /\ DeriveIdle /\ CtlIdle /\ InvIdle

\* line 28: argparse ends the process with status 2 on unusable arguments
MainParseArgs ==
    /\ cli.pc = "parse"
    /\ cli' = IF cli.inputs.args_ok
                THEN [cli EXCEPT !.pc = "task"]
                ELSE [cli EXCEPT !.pc = "exit", !.exit = "2"]
    /\ UNCHANGED <<vvars, tvars, vcsrun, derive, ctl, inv>>

\* lines 29-37: the task file is read and parsed
MainReadTask ==
    /\ cli.pc = "task"
    /\ cli' = IF cli.inputs.task_ok
                THEN [cli EXCEPT !.pc = "config"]
                ELSE [cli EXCEPT !.pc = "raised", !.exit = "1", !.exc = "task file"]
    /\ UNCHANGED <<vvars, tvars, vcsrun, derive, ctl, inv>>

\* line 38: Config.load
MainLoadConfig ==
    /\ cli.pc = "config"
    /\ IF cli.inputs.config_ok
        THEN /\ cli' = [cli EXCEPT !.pc = "call"]
             /\ config' = cli.inputs.run.config
        ELSE /\ cli' = [cli EXCEPT !.pc = "raised", !.exit = "1", !.exc = "ValueError"]
             /\ UNCHANGED config
    /\ UNCHANGED <<vvars, proposals, ignored, commits, work, pc, head, attempt, mu_pre,
                   mu_candidate, mu_post, logs, result, entry_work, baseline, trail,
                   vcsrun, derive, ctl, inv>>

\* line 39: run_controller is entered
MainRunController ==
    /\ cli.pc = "call"
    /\ cli' = [cli EXCEPT !.pc = "run"]
    /\ ctl' = CtlInit(cli.inputs.run.search, cli.inputs.run.plan)
    /\ UNCHANGED <<vvars, tvars, vcsrun, derive, inv>>

\* line 40: the patch of the returned result is written to --out
MainWritePatch ==
    /\ cli.pc = "run"
    /\ ctl.pc = "done"
    /\ cli' = [cli EXCEPT !.pc = "exit", !.exit = "0",
                          !.out = [written |-> TRUE, patch |-> ctl.final_patch]]
    /\ UNCHANGED <<vvars, tvars, vcsrun, derive, ctl, inv>>

\* line 39: an exception of run_controller leaves main
MainControllerRaised ==
    /\ cli.pc = "run"
    /\ ctl.pc = "raised"
    /\ cli' = [cli EXCEPT !.pc = "raised", !.exit = "1", !.exc = ctl.exc]
    /\ UNCHANGED <<vvars, tvars, vcsrun, derive, ctl, inv>>

NextMain ==
    \/ MainParseArgs
    \/ MainReadTask
    \/ MainLoadConfig
    \/ MainRunController
    \/ MainWritePatch
    \/ MainControllerRaised
    \/ NextController

SpecMain == InitMain /\ [][NextMain]_vars

\* the process of the CLI has ended
MainOver == cli.pc \in {"exit", "raised"}

\* C17: every run of main whose arguments and task file are readable (and
\* whose configuration loads) writes the final patch to --out, also an empty
\* patch and also when a stage of the run reports an error.
C17_PatchAlwaysWritten ==
    (MainOver /\ cli.inputs.args_ok /\ cli.inputs.task_ok /\ cli.inputs.config_ok) =>
        cli.out.written

\* the part of C17 that holds: a run whose controller returns writes the
\* patch of the result, empty or not, and ends with status 0
C17_ReturnedRunWritesPatch ==
    (MainOver /\ ctl.pc = "done") =>
        /\ cli.out = [written |-> TRUE, patch |-> ctl.final_patch]
        /\ cli.exit = "0"

----------------------------------------------------------------------------
(* investigator.py: run_investigations.  The scheduler, the sandbox and    *)
(* the probe runner of coding_in_parallel.probes are modelled from         *)
(* sections 4.4 and 4.6 of the specification.                              *)

MaxSuspects   == 3      \* most suspects seeded
MaxProbeLimit == 4      \* largest max_probes
MaxBudget     == 2      \* largest time budget of a PCB, in preempt penalties

PreemptPenalty == 1     \* the fixed penalty preempt takes off the time budget

Gains == {0, 1}         \* info gains of a probe: none, some

\* the feedback of the probes of a run: the same gain for every probe, or any
Feedbacks == {"equal none", "equal some", "any"}
GainsUnder(feedback) ==
    IF feedback = "equal none" THEN {0}
    ELSE IF feedback = "equal some" THEN {1}
    ELSE Gains

InsertAt(q, p, x) == SubSeq(q, 1, p - 1) \o <<x>> \o SubSeq(q, p, Len(q))

\* Scheduler.next_pcb: the head of the ready queue, 0 for None
next_pcb(queue) == IF queue = <<>> THEN 0 ELSE Head(queue)

\* Scheduler.preempt: the PCB goes to the tail with its time budget cut by the
\* penalty; a PCB whose budget reaches zero is retired
preempt(queue, budget, id) ==
    {[queue |-> IF budget[id] - PreemptPenalty <= 0 THEN queue ELSE Append(queue, id),
      budget |-> [budget EXCEPT ![id] = Max(0, budget[id] - PreemptPenalty)],
      call |-> [op |-> "preempt", id |-> id, gain |-> 0]]}

\* Scheduler.boost: the PCB re-enters nearer the head than the tail
boost(queue, budget, id) ==
    {[queue |-> InsertAt(queue, p, id), budget |-> budget,
      call |-> [op |-> "boost", id |-> id, gain |-> 0]] : p \in 1..Max(1, Len(queue))}

\* Scheduler.record_gain: the call the scheduler receives
record_gain(id, gain) == [op |-> "record_gain", id |-> id, gain |-> gain]

\* a policy that boosts on low gain and demotes otherwise
Feedback_Swapped(queue, budget, id, gain) ==
    IF gain <= 0 THEN boost(queue, budget, id) ELSE preempt(queue, budget, id)

\* lines 179-183: demote on low gain, boost otherwise
Feedback(queue, budget, id, gain) ==
    IF gain <= 0 THEN preempt(queue, budget, id) ELSE boost(queue, budget, id)

\* a loop guard that lets one probe too many through
BudgetLeft_Inclusive(probes_run, max_probes) == probes_run <= max_probes

\* line 162: while probes_run < max_probes
BudgetLeft(probes_run, max_probes) == probes_run < max_probes

\* a finally clause that runs on normal completion only
Finally_OnReturnOnly(sandboxes, pending) ==
    IF pending # "" THEN sandboxes
    ELSE [sandboxes EXCEPT ![Len(sandboxes)] = [live |-> FALSE, cleanups |-> @.cleanups + 1]]

\* lines 184-185: finally: sb.cleanup() removes the directory of the sandbox
\* created last
Finally(sandboxes, pending) ==
    [sandboxes EXCEPT ![Len(sandboxes)] = [live |-> FALSE, cleanups |-> @.cleanups + 1]]

\* the directory of a sandbox that does not exist (not yet created, cleaned up)
NoTree == [f \in Files |-> Absent]

\* _make_probe_patch (lines 121-135): one marker comment added to the file of
\* the suspect, under a bare '@@'
_make_probe_patch(file) == <<Hdr(file, file), BadHunk, Add("# cip_probe")>>

\* sandbox.create: a throwaway copy of the repository
create(repo_tree) == repo_tree

\* probe_runner.investigative_tx: the probe patch is applied in the directory
\* of the handle it is given; trees is [main, sb], the trees of the
\* repository and of the sandbox, and every outcome is the trees after it
investigative_tx(trees, handle, patch) ==
    {[trees EXCEPT ![handle] = o.tree] : o \in apply_diff(trees[handle], patch)}

\* a driver that hands the probe runner the repository itself
ProbeHandle_Repo == "main"

\* lines 170-172: the handle given to investigative_tx is the sandbox that
\* sbx.create returned, not ctx.repo_path
ProbeHandle == "sb"

InvInputs ==
    [suspects : 0..MaxSuspects, max_probes : 0..MaxProbeLimit,
     time_budget : 1..MaxBudget, feedback : Feedbacks]

InvStart(i) ==
    [pc |-> "seed", inputs |-> i, queue |-> <<>>, budget |-> <<>>, gain_sum |-> <<>>,
     probes_run |-> 0, pcb |-> 0, sandboxes |-> <<>>, pending |-> "", exc |-> "",
     schedule |-> <<>>, executed |-> 0, dry |-> FALSE, sb_tree |-> NoTree,
     gain |-> 0, calls |-> <<>>]

InitInvestigate ==
    /\ inv \in {InvStart(i) : i \in InvInputs}
    /\ vdiff = <<>>
    /\ vparams = [allowed_files |-> {}, target_spans |-> <<>>, padding_lines |-> 0,
                  max_loc |-> 0, max_files |-> 0, allow_api_change |-> FALSE]
    /\ vresult = Pending
    /\ TxnIdle
    /\ VcsIdle /\ DeriveIdle /\ CtlIdle /\ CliIdle

\* lines 152-159: the suspects are published and one PCB per suspect is added
\* to the scheduler, in the order of the suspects
InvSeed ==
    /\ inv.pc = "seed"
    /\ inv' = [inv EXCEPT !.pc = "loop",
                          !.queue = [k \in 1..inv.inputs.suspects |-> k],
                          !.budget = [k \in 1..inv.inputs.suspects |-> inv.inputs.time_budget],
                          !.gain_sum = [k \in 1..inv.inputs.suspects |-> 0]]
    /\ UNCHANGED <<vvars, tvars, vcsrun, derive, ctl, cli>>

\* lines 162-168: the loop guard and next_pcb
InvNext ==
    /\ inv.pc = "loop"
    /\ IF ~BudgetLeft(inv.probes_run, inv.inputs.max_probes)
        THEN inv' = [inv EXCEPT !.pc = "returned"]
       ELSE IF next_pcb(inv.queue) = 0
        THEN inv' = [inv EXCEPT !.pc = "returned", !.dry = TRUE]
       ELSE inv' = [inv EXCEPT !.pc = "create",
                               !.pcb = next_pcb(inv.queue),
                               !.queue = Tail(inv.queue),
                               !.schedule = Append(inv.schedule, next_pcb(inv.queue))]
    /\ UNCHANGED <<vvars, tvars, vcsrun, derive, ctl, cli>>

\* lines 169-170: the probe patch is built and the sandbox created; a create
\* that raises leaves no sandbox behind
InvCreate ==
    /\ inv.pc = "create"
    /\ \E ok \in BOOLEAN :
        IF ok
            THEN inv' = [inv EXCEPT !.pc = "try",
                                    !.sb_tree = create(work),
                                    !.calls = <<>>,
                                    !.sandboxes = Append(inv.sandboxes, [live |-> TRUE, cleanups |-> 0])]
            ELSE inv' = [inv EXCEPT !.pc = "raised", !.exc = "create"]
    /\ UNCHANGED <<vvars, tvars, vcsrun, derive, ctl, cli>>

\* lines 171-183: the body of the try: the probe is executed, its results
\* are published, the gain is fed back to the scheduler; gain is the gain
\* investigative_tx returned and calls the scheduler calls made for this probe
InvProbe ==
    /\ inv.pc = "try"
    /\ \E r \in investigative_tx([main |-> work, sb |-> inv.sb_tree], ProbeHandle,
                                  _make_probe_patch(ModPy)) :
        /\ work' = r.main
        /\ \/ \E gain \in GainsUnder(inv.inputs.feedback) :
                \E after \in Feedback(inv.queue, inv.budget, inv.pcb, gain) :
                    inv' = [inv EXCEPT !.pc = "finally",
                                       !.executed = inv.executed + 1,
                                       !.gain_sum = [inv.gain_sum EXCEPT ![inv.pcb] = @ + gain],
                                       !.probes_run = inv.probes_run + 1,
                                       !.queue = after.queue,
                                       !.budget = after.budget,
                                       !.gain = gain,
                                       !.calls = <<record_gain(inv.pcb, gain), after.call>>,
                                       !.sb_tree = r.sb]
           \/ inv' = [inv EXCEPT !.pc = "finally", !.executed = inv.executed + 1,
                                 !.pending = "investigative_tx", !.sb_tree = r.sb]
           \/ inv' = [inv EXCEPT !.pc = "finally", !.executed = inv.executed + 1,
                                 !.pending = "publish", !.sb_tree = r.sb]
    /\ UNCHANGED <<vvars, vcsrun, derive, ctl, cli, config, proposals, ignored, commits,
                   pc, head, attempt, mu_pre, mu_candidate, mu_post, logs, result,
                   entry_work, baseline, trail>>

\* lines 184-185: the finally clause, then the next round or the exception
InvFinally ==
    /\ inv.pc = "finally"
    /\ inv' = [inv EXCEPT !.pc = IF inv.pending # "" THEN "raised" ELSE "loop",
                          !.exc = inv.pending,
                          !.pending = "",
                          !.sb_tree = NoTree,
                          !.sandboxes = Finally(inv.sandboxes, inv.pending)]
    /\ UNCHANGED <<vvars, tvars, vcsrun, derive, ctl, cli>>

NextInvestigate ==
    \/ InvSeed
    \/ InvNext
    \/ InvCreate
    \/ InvProbe
    \/ InvFinally

\* the function runs on one thread: a step that can be taken is taken
SpecInvestigate == InitInvestigate /\ [][NextInvestigate]_vars /\ WF_vars(NextInvestigate)

InvOver == inv.pc \in {"returned", "raised"}

----------------------------------------------------------------------------
(* Claims about run_investigations.                                        *)

\* C18: every sandbox created is cleaned up exactly once before the next one
\* is created or the function exits, on normal completion of the probe and
\* on an exception raised while the probe runs or its results are published.
C18_SandboxCleanedOnceOnEveryPath ==
    /\ \A k \in 1..Len(inv.sandboxes) :
        /\ inv.sandboxes[k].cleanups <= 1
        /\ inv.sandboxes[k].live <=> inv.sandboxes[k].cleanups = 0
        /\ k < Len(inv.sandboxes) => inv.sandboxes[k].cleanups = 1
    /\ inv.pc \in {"loop", "create", "returned", "raised"} =>
        \A k \in 1..Len(inv.sandboxes) : inv.sandboxes[k].cleanups = 1

\* a probe completed normally, the next one raised, and the function is left
C18_Witness ==
    /\ inv.pc = "raised"
    /\ inv.exc \in {"investigative_tx", "publish"}
    /\ Len(inv.sandboxes) = 2

\* C19: the probe dispatch loop always terminates: it executes at most
\* max_probes probes and stops as soon as next_pcb returns no PCB.
C19_DispatchLoopTerminates ==
    /\ [](/\ inv.pc # "idle" => inv.executed <= inv.inputs.max_probes
          /\ inv.pc # "idle" => Len(inv.schedule) <= inv.inputs.max_probes
          /\ (inv.pc # "idle" /\ inv.dry) => inv.pc = "returned")
    /\ <>InvOver

\* the queue ran dry before the probe budget was used up
C19_Witness ==
    /\ inv.pc = "returned"
    /\ inv.dry
    /\ inv.executed >= 1
    /\ inv.executed < inv.inputs.max_probes

Selected(id) == Cardinality({k \in 1..Len(inv.schedule) : inv.schedule[k] = id})
Balanced ==
    \A a, b \in 1..inv.inputs.suspects : Selected(a) - Selected(b) <= 1

\* C20 as stated: under equal info gain for all probes the numbers of times
\* any two PCBs have been selected differ by at most one at every point.
C20_RoundRobinUnderEqualGain ==
    (inv.pc # "idle" /\ inv.inputs.feedback \in {"equal none", "equal some"}) => Balanced

\* the part of C20 that holds: when every probe reports no gain (gain <= 0),
\* so that every probed PCB is demoted to the tail, the PCBs are selected in
\* strict round-robin order of their seeding and the numbers of times any two
\* PCBs have been selected differ by at most one at every point.
C20_RoundRobinUnderNoGain ==
    (inv.pc # "idle" /\ inv.inputs.feedback = "equal none") =>
        /\ Balanced
        /\ \A k \in 1..Len(inv.schedule) :
            inv.schedule[k] = ((k - 1) % inv.inputs.suspects) + 1

----------------------------------------------------------------------------
(* Further claims about ensure_within_limits.                              *)

SpanFiles(target_spans) == {target_spans[i].file : i \in 1..Len(target_spans)}

\* C23: a single-file diff whose hunk header is a bare '@@' is accepted when
\* its file is in allowed_files and in the target spans, the file count is
\* within max_files and the number of changed lines within max_loc.
C23_BareHunkHeaderAccepted ==
    (/\ vresult # Pending
     /\ Len(vdiff) >= 3
     /\ vdiff[1].k = "hdr" /\ vdiff[1].a = vdiff[1].b
     /\ vdiff[2].k = "bad_hunk"
     /\ \A i \in 3..Len(vdiff) : vdiff[i].k \in {"del", "add"} /\ vdiff[i].text = "x"
     /\ vdiff[1].b \in vparams.allowed_files
     /\ vdiff[1].b \in SpanFiles(vparams.target_spans)
     /\ 1 <= vparams.max_files
     /\ Len(vdiff) - 2 <= vparams.max_loc)
    => Accepted

\* the diff opens with 'diff --git', '--- a/<f>', '+++ b/<f>' and one hunk header
StandardForm(diff) ==
    /\ Len(diff) >= 4
    /\ diff[1].k = "hdr" /\ diff[1].a = diff[1].b
    /\ diff[2] = Del(OldHeaderText)
    /\ diff[3] = Add(NewHeaderText)
    /\ diff[4].k = "hunk"
    /\ \A i \in 5..Len(diff) : diff[i].k \in {"ctx", "del", "add"}

\* C25: a diff in the standard form, each 'diff --git' line followed by its
\* '--- ' and '+++ ' lines, is accepted when its body lines, files and counts
\* are within the limits; the '---'/'+++' lines count neither as deletions or
\* additions nor as changed lines.
C25_StandardHeadersAccepted ==
    (/\ vresult # Pending
     /\ StandardForm(vdiff)
     /\ vdiff[1].b \in vparams.allowed_files
     /\ vdiff[1].b \in SpanFiles(vparams.target_spans)
     /\ 1 <= vparams.max_files
     /\ Cardinality({i \in 5..Len(vdiff) : vdiff[i].k \in {"del", "add"}}) <= vparams.max_loc
     /\ \A i \in 5..Len(vdiff) :
            /\ vdiff[i].k = "del" =>
                InClampedSpan(vparams.target_spans, vparams.padding_lines,
                              vdiff[1].b, OldLineNo(vdiff, i))
            /\ vdiff[i].k = "add" =>
                InClampedSpan(vparams.target_spans, vparams.padding_lines,
                              vdiff[1].b, NewLineNo(vdiff, i))
     /\ \A i \in 5..Len(vdiff) : ~StartsWithDef(vdiff[i].text))
    => Accepted

\* state of the walk after the first n lines of the diff of the run
WalkAfter(n) ==
    Walk(WalkInit, SubSeq(vdiff, 1, n),
         _span_map(vparams.target_spans, vparams.padding_lines),
         vparams.allow_api_change)

\* the run got as far as the walk over the lines
Walked == vresult # Pending /\ vresult.walk # WalkInit /\ vresult.walk = WalkAfter(Len(vdiff))

\* index of the hunk header that line n is, or is a body line of; 0 when none
HunkAt(n) == HunkOf(vdiff, n + 1)

\* C26: while the walk is inside a hunk, the old-side cursor is the hunk's old
\* start plus the context and deletion lines consumed in the hunk and the
\* new-side cursor the new start plus the context and addition lines consumed;
\* a hunk header re-seeds both; a deletion or addition in a file section
\* before any hunk header makes the call raise.
C26_CursorsCountConsumedLines ==
    /\ Walked =>
        \A n \in 1..Len(vdiff) :
            HunkAt(n) # 0 =>
                \E w \in {WalkAfter(n)}, h \in {HunkAt(n)} :
                    w.err = "" =>
                        /\ w.old_line = vdiff[h].os
                              + Cardinality({j \in (h + 1)..n : vdiff[j].k \in {"ctx", "del"}})
                        /\ w.new_line = vdiff[h].ns
                              + Cardinality({j \in (h + 1)..n : vdiff[j].k \in {"ctx", "add"}})
    /\ (/\ vresult # Pending
        /\ \E i \in 1..Len(vdiff) :
              /\ vdiff[i].k \in {"del", "add"}
              /\ FileOf(vdiff, i) # NoFile
              /\ LastBefore(vdiff, i, {"hunk", "bad_hunk"}) < LastBefore(vdiff, i, {"hdr"}))
        => Rejected

\* an accepted run whose second hunk re-seeded the cursors after the first
\* hunk had moved them, and whose cursors then advanced by different amounts
C26_Witness ==
    /\ Walked /\ Accepted
    /\ Len(vdiff) = 5
    /\ vdiff[2] = Hunk(2, 3) /\ vdiff[3].k = "del"
    /\ vdiff[4] = Hunk(1, 1) /\ vdiff[5].k = "add"
    /\ WalkAfter(3).old_line = 3 /\ WalkAfter(3).new_line = 3
    /\ WalkAfter(4).old_line = 1 /\ WalkAfter(4).new_line = 1
    /\ vresult.walk.old_line = 1 /\ vresult.walk.new_line = 2

\* C27: a diff in which every hunk removes and adds the same set of def lines
\* is never rejected with 'Public API signature change detected'.
C27_EqualDefSetsNotRejected ==
    (/\ vresult # Pending
     /\ \A h \in 1..Len(vdiff) :
            vdiff[h].k = "hunk" => HunkRemovedDefs(vdiff, h) = HunkAddedDefs(vdiff, h))
    => vresult.err # "Public API signature change detected in diff."

----------------------------------------------------------------------------
(* Further claims about txn_patch *)

\* the proposal under validation fails ensure_within_limits
FailsValidation ==
    /\ pc = "validate"
    /\ ensure_within_limits(proposals[attempt],
            {StepSpans[i].file : i \in 1..Len(StepSpans)},
            MaxLocChanges, MaxFilesPerDiff, StepSpans, SlicePaddingLines, FALSE).err # ""

\* C28: a proposal that fails validation goes through no apply, revert or
\* commit: the step that finds the failure leaves the working tree, the
\* commits and the checkpoint as they are, logs 'validation failed' and goes
\* back to the head of the loop, and the attempt never runs a later stage.
C28_ValidationFailureTouchesNothing ==
    /\ [][FailsValidation =>
            /\ work' = work
            /\ commits' = commits
            /\ head' = head
            /\ logs' = Append(logs, "validation failed")
            /\ attempt' = attempt
            /\ pc' = "loop"]_vars
    /\ [](\A i \in 1..Len(trail) :
            trail[i].outcome = "validation failed" =>
                trail[i].stages = <<"validate">> /\ trail[i].after = trail[i].before)

\* a proposal failed validation on a tree with uncommitted changes, which are
\* still there, and the next proposal has been taken up
C28_Witness ==
    /\ Len(trail) >= 2
    /\ trail[1].outcome = "validation failed"
    /\ trail[1].before # BaseTree
    /\ trail[2].before = trail[1].before
    /\ Len(commits) = 1

\* place of a stage in the order validate, apply, static gate, targeted tests
\* or measure, mu comparison, commit
StageRank(stage) ==
    CASE stage = "validate" -> 1
      [] stage = "apply" -> 2
      [] stage = "static" -> 3
      [] stage \in {"targeted", "measure"} -> 4
      [] stage = "mu_check" -> 5
      [] OTHER -> 6

\* C29: the stages of an attempt run in the order validate, apply, static
\* gate, targeted tests or measure, mu comparison; with gates.static on, the
\* static gate is the first stage after a successful apply, so no attempt
\* ends with 'mu worsened' before its static gate has run.
C29_StaticGateBeforeMu ==
    \A i \in 1..Len(trail) :
        LET st == trail[i].stages IN
        /\ \A j, k \in 1..Len(st) : j < k => StageRank(st[j]) < StageRank(st[k])
        /\ (config.static /\ trail[i].outcome = "mu worsened") =>
                \E j \in 1..Len(st) : st[j] = "static"

----------------------------------------------------------------------------
(* vcs.py on its own: _normalize_diff, apply_diff and final_patch on a       *)
(* repository whose working tree is clean.                                  *)

MaxFileLines == 3
MaxHunkBody  == 3
MaxNormLines == 4

NoText == [lines |-> <<>>, nl |-> FALSE]

\* what a str can be as [lines, nl]: a text that does not end with a newline
\* has no empty last line, and a text that ends with one has a line
IsText(t) ==
    /\ t.nl => t.lines # <<>>
    /\ ~t.nl => (t.lines = <<>> \/ t.lines[Len(t.lines)].k # "blank")

\* repositories: mod.py holds up to n lines, each "a" or "b"
ApplyTrees(n) ==
    {[BaseTree EXCEPT ![ModPy] = File(c)] : c \in SeqUpTo({"a", "b"}, n) \ {<<>>}}

\* one-hunk diffs of mod.py without '---'/'+++' lines, the hunk header bare
\* ('@@') or with line numbers (at line 1 or 2), the body of up to n lines
HunkDiffs(n) ==
    {<<Hdr(ModPy, ModPy), h>> \o body :
        h \in {BadHunk, Hunk(1, 1), Hunk(2, 2)},
        body \in SeqUpTo({Ctx("a"), Ctx("b"), Del("a"), Del("b"), Add("c")}, n) \ {<<>>}}

\* texts of up to n lines for the normalizer: 'diff --git' lines, '--- ' and
\* '+++ ' lines, an 'index' line, a hunk header, a deletion and an empty line,
\* in any order
NormTexts(n) ==
    {t \in [lines : SeqUpTo({Hdr(ModPy, ModPy), Hdr(OtherPy, OtherPy),
                             Del(OldHeaderText), Add(NewHeaderText), Other,
                             Hunk(1, 1), Del("a"), Blank}, n),
            nl : BOOLEAN] : IsText(t)}

\* apply_diff is entered with a diff and a repository whose tree is clean
ApplyStart(diff, tree) ==
    [pc |-> "start", diff |-> diff, head_tree |-> tree, tree |-> tree,
     normalized |-> NoText, exc |-> "", how |-> "", patch |-> EmptyPatch]

\* vcs.final_patch: git diff HEAD, the changes of the tracked files
final_patch(tree, committed) ==
    diff_between(committed,
                 [f \in Files |-> IF Tracked(committed, f) THEN tree[f] ELSE committed[f]])

InitApply ==
    /\ \/ \E d \in HunkDiffs(MaxHunkBody), t \in ApplyTrees(MaxFileLines) :
            vcsrun = ApplyStart([lines |-> d, nl |-> TRUE], t)
       \/ \E d \in NormTexts(MaxNormLines) :
            vcsrun = ApplyStart(d, [BaseTree EXCEPT ![ModPy] = File(<<"a", "b">>)])
    /\ vdiff = <<>>
    /\ vparams = [allowed_files |-> {}, target_spans |-> <<>>, padding_lines |-> 0,
                  max_loc |-> 0, max_files |-> 0, allow_api_change |-> FALSE]
    /\ vresult = Pending
    /\ TxnIdle
    /\ DeriveIdle /\ CtlIdle /\ CliIdle /\ InvIdle

\* apply_diff line 64: the diff goes through the normalizer
VcsNormalize ==
    /\ vcsrun.pc = "start"
    /\ vcsrun' = [vcsrun EXCEPT !.pc = "normalized",
                                !.normalized = _normalize_diff(vcsrun.diff)]
    /\ UNCHANGED <<vvars, tvars, derive, ctl, cli, inv>>

\* apply_diff lines 65-68: git apply, and _manual_apply when it fails
VcsApplyDiff ==
    /\ vcsrun.pc = "normalized"
    /\ \E o \in apply_diff(vcsrun.tree, vcsrun.diff.lines) :
        vcsrun' = [vcsrun EXCEPT !.pc = IF o.exc = "" THEN "applied" ELSE "raised",
                                 !.tree = o.tree, !.exc = o.exc, !.how = o.how]
    /\ UNCHANGED <<vvars, tvars, derive, ctl, cli, inv>>

\* final_patch after apply_diff has returned
VcsFinalPatch ==
    /\ vcsrun.pc = "applied"
    /\ vcsrun' = [vcsrun EXCEPT !.pc = "done",
                                !.patch = final_patch(vcsrun.tree, vcsrun.head_tree)]
    /\ UNCHANGED <<vvars, tvars, derive, ctl, cli, inv>>

NextApply ==
    \/ VcsNormalize
    \/ VcsApplyDiff
    \/ VcsFinalPatch

SpecApply == InitApply /\ [][NextApply]_vars

\* the texts of the ' ' and '-' lines, and of the ' ' and '+' lines, of a body
OldSide(body) ==
    LET s == SelectSeq(body, LAMBDA l : l.k \in {"ctx", "del"})
    IN  [i \in 1..Len(s) |-> s[i].text]
NewSide(body) ==
    LET s == SelectSeq(body, LAMBDA l : l.k \in {"ctx", "add"})
    IN  [i \in 1..Len(s) |-> s[i].text]

\* the diff of the run is one section of mod.py with a bare '@@' header and
\* no '---'/'+++' lines, and its old side occurs in the file
MildlyMalformed ==
    /\ vcsrun.pc # "idle"
    /\ Len(vcsrun.diff.lines) >= 3
    /\ vcsrun.diff.lines[1] = Hdr(ModPy, ModPy)
    /\ vcsrun.diff.lines[2] = BadHunk
    /\ \A i \in 3..Len(vcsrun.diff.lines) : vcsrun.diff.lines[i].k \in {"ctx", "del", "add"}
    /\ Occurrences(vcsrun.head_tree[ModPy].lines,
                   OldSide(SubSeq(vcsrun.diff.lines, 3, Len(vcsrun.diff.lines)))) # {}

\* C24: apply_diff on a diff with a bare '@@' hunk header and no '---'/'+++'
\* lines, which git apply rejects, returns with the file holding the diff's
\* added lines in place of an occurrence of its removed lines, and
\* final_patch then shows that change.
C24_MalformedDiffApplied ==
    LET body == SubSeq(vcsrun.diff.lines, 3, Len(vcsrun.diff.lines))
        h == [os |-> 0, pre |-> OldSide(body), post |-> NewSide(body), trailing |-> 0]
    IN  MildlyMalformed =>
            /\ vcsrun.pc \in {"applied", "done"} =>
                /\ vcsrun.how = "manual"
                /\ vcsrun.tree[ModPy].lines
                      \in {ApplyAt(vcsrun.head_tree[ModPy].lines, p, h) :
                              p \in Occurrences(vcsrun.head_tree[ModPy].lines, h.pre)}
            /\ vcsrun.pc = "done" =>
                vcsrun.patch = diff_between(vcsrun.head_tree, vcsrun.tree)
            /\ vcsrun.pc # "raised"

IsHeaderLine(line) == IsOldHeader(line) \/ IsNewHeader(line)
HeaderCount(lines) == Len(SelectSeq(lines, IsHeaderLine))
OtherLines(lines) == SelectSeq(lines, LAMBDA l : ~IsHeaderLine(l))

\* in the output every 'diff --git' line is followed by '--- ' and then '+++ '
HeadersFollowEveryDiffLine ==
    vcsrun.pc \notin {"idle", "start"} =>
        \A i \in 1..Len(vcsrun.normalized.lines) :
            vcsrun.normalized.lines[i].k = "hdr" =>
                /\ i + 2 <= Len(vcsrun.normalized.lines)
                /\ IsOldHeader(vcsrun.normalized.lines[i + 1])
                /\ IsNewHeader(vcsrun.normalized.lines[i + 2])

\* a section that holds its '---' and '+++' lines gets no further header line
NoHeaderAddedWherePresent ==
    vcsrun.pc \notin {"idle", "start"} =>
        \A i \in 1..Len(Sections(vcsrun.diff.lines)) :
            LET before == Sections(vcsrun.diff.lines)[i].lines
                after == Sections(vcsrun.normalized.lines)[i].lines
            IN  (/\ \E j \in 1..Len(before) : IsOldHeader(before[j])
                 /\ \E j \in 1..Len(before) : IsNewHeader(before[j]))
                => HeaderCount(after) = HeaderCount(before)

\* the lines that are not '---'/'+++' lines are kept, in order
OtherLinesKept ==
    vcsrun.pc \notin {"idle", "start"} =>
        OtherLines(vcsrun.normalized.lines) = OtherLines(vcsrun.diff.lines)

\* the output ends with a newline exactly when the input does
TrailingNewlineKept ==
    vcsrun.pc \notin {"idle", "start"} => vcsrun.normalized.nl = vcsrun.diff.nl

\* C30: the normalizer inserts '---'/'+++' lines only where they are missing:
\* in its output every 'diff --git' line is followed at once by a '--- ' line
\* and then a '+++ ' line, a section that already holds both gets no further
\* header line, the other lines are kept in order, and the output ends with a
\* newline exactly when the input does.
C30_NormalizerInsertsOnlyMissingHeaders ==
    /\ HeadersFollowEveryDiffLine
    /\ NoHeaderAddedWherePresent
    /\ OtherLinesKept
    /\ TrailingNewlineKept

----------------------------------------------------------------------------
(* Further claims about run_investigations.                                 *)

\* C21: run_investigations never modifies the main working tree: the probe
\* patches are applied in sandbox copies only, so the working tree and HEAD
\* are at every point of the run what they were when it was entered.
C21_MainTreeUntouched ==
    inv.pc # "idle" =>
        /\ work = entry_work
        /\ commits = <<[message |-> <<"init">>, tree |-> BaseTree]>>

\* the second probe has run: its sandbox holds the marker line of the probe
\* patch, and the main tree does not
C21_Witness ==
    /\ inv.pc = "finally"
    /\ inv.executed = 2
    /\ inv.sb_tree[ModPy].lines = <<"# cip_probe">> \o BaseTree[ModPy].lines
    /\ work = BaseTree

----------------------------------------------------------------------------
(* The blackboard store on its own (section 4.5 of the specification):      *)
(* publishes and snapshots in any order, as run_investigations and later    *)
(* writers issue them.                                                      *)

MaxStoreOps == 4        \* most operations on the store in a run

EvidenceItems == [probe_id : {"pp-1", "pp-2"}, result : {"pass", "fail"}]

EmptyStore ==
    [suspects |-> <<>>, probe_patches |-> <<>>, evidence |-> <<>>, invariants |-> {}]

\* BlackboardStore.publish_*: append-only
publish_suspects(store, list) == [store EXCEPT !.suspects = @ \o list]
publish_probe_patch(store, pp) == [store EXCEPT !.probe_patches = Append(@, pp)]
publish_evidence(store, e) == [store EXCEPT !.evidence = Append(@, e)]
publish_invariant(store, text) == [store EXCEPT !.invariants = @ \cup {text}]

\* a snapshot that is a live view of the store
snapshot_LiveView(store) == [live |-> TRUE, value |-> store]

\* BlackboardStore.snapshot: a deep copy of the store
snapshot(store) == [live |-> FALSE, value |-> store]

\* what the holder of a snapshot reads in it
Read(snap, store) == IF snap.live THEN store ELSE snap.value

InitBlackboard ==
    /\ inv = [pc |-> "store", store |-> EmptyStore, log |-> <<>>, snaps |-> <<>>]
    /\ vdiff = <<>>
    /\ vparams = [allowed_files |-> {}, target_spans |-> <<>>, padding_lines |-> 0,
                  max_loc |-> 0, max_files |-> 0, allow_api_change |-> FALSE]
    /\ vresult = Pending
    /\ TxnIdle
    /\ VcsIdle /\ DeriveIdle /\ CtlIdle /\ CliIdle

StoreOpen == inv.pc = "store" /\ Len(inv.log) + Len(inv.snaps) < MaxStoreOps

\* line 154: store.publish_suspects(suspects)
BbPublishSuspects ==
    /\ StoreOpen
    /\ \E list \in {<<"s1">>, <<"s1", "s2">>} :
        inv' = [inv EXCEPT !.store = publish_suspects(@, list),
                           !.log = Append(@, [op |-> "suspects", arg |-> list])]
    /\ UNCHANGED <<vvars, tvars, vcsrun, derive, ctl, cli>>

\* line 174: store.publish_probe_patch(patch)
BbPublishProbePatch ==
    /\ StoreOpen
    /\ \E pp \in {"pp-1", "pp-2"} :
        inv' = [inv EXCEPT !.store = publish_probe_patch(@, pp),
                           !.log = Append(@, [op |-> "probe_patch", arg |-> pp])]
    /\ UNCHANGED <<vvars, tvars, vcsrun, derive, ctl, cli>>

\* lines 175-176: store.publish_evidence(...) for every artifact
BbPublishEvidence ==
    /\ StoreOpen
    /\ \E e \in EvidenceItems :
        inv' = [inv EXCEPT !.store = publish_evidence(@, e),
                           !.log = Append(@, [op |-> "evidence", arg |-> e])]
    /\ UNCHANGED <<vvars, tvars, vcsrun, derive, ctl, cli>>

\* publish_invariant
BbPublishInvariant ==
    /\ StoreOpen
    /\ \E text \in {"i1", "i2"} :
        inv' = [inv EXCEPT !.store = publish_invariant(@, text),
                           !.log = Append(@, [op |-> "invariant", arg |-> text])]
    /\ UNCHANGED <<vvars, tvars, vcsrun, derive, ctl, cli>>

\* line 187: store.snapshot(); at is the number of publishes it follows
BbSnapshot ==
    /\ StoreOpen
    /\ inv' = [inv EXCEPT !.snaps = Append(@, [view |-> snapshot(inv.store),
                                                at |-> Len(inv.log)])]
    /\ UNCHANGED <<vvars, tvars, vcsrun, derive, ctl, cli>>

NextBlackboard ==
    \/ BbPublishSuspects
    \/ BbPublishProbePatch
    \/ BbPublishEvidence
    \/ BbPublishInvariant
    \/ BbSnapshot

SpecBlackboard == InitBlackboard /\ [][NextBlackboard]_vars

\* the arguments of the publishes of kind op among the first n, in order
Published(op, n) ==
    LET s == SelectSeq(SubSeq(inv.log, 1, n), LAMBDA c : c.op = op)
    IN  [i \in 1..Len(s) |-> s[i].arg]

\* C22: a snapshot is a point-in-time view: whatever is published after it
\* was taken, it holds the evidence and the probe patches published before
\* it, in the order of their publication, and nothing else.
C22_SnapshotIsPointInTime ==
    inv.pc = "store" =>
        \A k \in 1..Len(inv.snaps) :
            /\ Read(inv.snaps[k].view, inv.store).evidence
                  = Published("evidence", inv.snaps[k].at)
            /\ Read(inv.snaps[k].view, inv.store).probe_patches
                  = Published("probe_patch", inv.snaps[k].at)
            /\ Read(inv.snaps[k].view, inv.store).invariants
                  = {Published("invariant", inv.snaps[k].at)[i] :
                        i \in 1..Len(Published("invariant", inv.snaps[k].at))}

\* a snapshot taken after two different pieces of evidence, and evidence
\* published after it
C22_Witness ==
    /\ inv.pc = "store"
    /\ Len(inv.snaps) = 1
    /\ inv.snaps[1].at = 2
    /\ Len(Published("evidence", 2)) = 2
    /\ Published("evidence", 2)[1] # Published("evidence", 2)[2]
    /\ Len(inv.store.evidence) = 3

\* ---------------------------------------------------------------------------
\* Further claims about apply_diff
\* ---------------------------------------------------------------------------

\* the diff of the run is one section of mod.py with a numbered hunk header
\* and a body of ' ', '-' and '+' lines whose old side is what the file holds
\* at the line the header names
NumberedHunkInFile ==
    /\ vcsrun.pc # "idle"
    /\ Len(vcsrun.diff.lines) >= 3
    /\ vcsrun.diff.lines[1] = Hdr(ModPy, ModPy)
    /\ vcsrun.diff.lines[2].k = "hunk"
    /\ \A i \in 3..Len(vcsrun.diff.lines) : vcsrun.diff.lines[i].k \in {"ctx", "del", "add"}
    /\ vcsrun.diff.lines[2].os >= 1
    /\ \E body \in {SubSeq(vcsrun.diff.lines, 3, Len(vcsrun.diff.lines))} :
        \E last \in {vcsrun.diff.lines[2].os + Len(OldSide(body)) - 1} :
            /\ last <= Len(vcsrun.head_tree[ModPy].lines)
            /\ SubSeq(vcsrun.head_tree[ModPy].lines, vcsrun.diff.lines[2].os, last)
                  = OldSide(body)

\* C31: when the manual fallback of apply_diff has applied a one-hunk diff,
\* the file is the original with the hunk's new side in place of the lines at
\* the old-side position of the hunk header, every other line unchanged.
C31_ManualFallbackAtHeaderPosition ==
    LET body == SubSeq(vcsrun.diff.lines, 3, Len(vcsrun.diff.lines))
        h == [os |-> vcsrun.diff.lines[2].os, pre |-> OldSide(body),
              post |-> NewSide(body), trailing |-> 0]
    IN  (NumberedHunkInFile /\ vcsrun.pc \in {"applied", "done"} /\ vcsrun.how = "manual")
            => vcsrun.tree[ModPy].lines = ApplyAt(vcsrun.head_tree[ModPy].lines, h.os, h)

\* ---------------------------------------------------------------------------
\* Further claims about txn_patch: the committed change
\* ---------------------------------------------------------------------------

\* the length of the longest common prefix of two sequences
CommonPrefix(s, t) ==
    CHOOSE n \in 0..Min(Len(s), Len(t)) :
        /\ SubSeq(s, 1, n) = SubSeq(t, 1, n)
        /\ n < Min(Len(s), Len(t)) => s[n + 1] # t[n + 1]

Reverse(s) == [i \in 1..Len(s) |-> s[Len(s) + 1 - i]]

\* the old-side line numbers a change of content old into content new covers:
\* the lines between the common prefix and the common suffix, the line of the
\* insertion when no old line is changed
ChangedLineNumbers(old, new) ==
    LET pre == CommonPrefix(old, new)
        suf == CommonPrefix(Reverse(SubSeq(old, pre + 1, Len(old))),
                            Reverse(SubSeq(new, pre + 1, Len(new))))
    IN  IF old = new THEN {}
        ELSE (pre + 1)..Max(pre + 1, Len(old) - suf)

\* C32: after a committed transaction the new commit differs from the head at
\* entry only in files of the step's target spans, and only in lines within a
\* padded target span of the file.
C32_CommitWithinTargetSpans ==
    (result.kind = "returned" /\ result.committed) =>
        \A f \in Files :
            commits[head].tree[f] # HeadTree[f] =>
                /\ f \in {StepSpans[i].file : i \in 1..Len(StepSpans)}
                /\ \A n \in ChangedLineNumbers(commits[head].tree[f].lines, HeadTree[f].lines) :
                        InPaddedSpan(StepSpans, SlicePaddingLines, f, n)

\* ---------------------------------------------------------------------------
\* Further claims about run_investigations: the feedback to the scheduler
\* ---------------------------------------------------------------------------

\* C33: once the body of a probe is over, the scheduler has received for that
\* probe record_gain with the probe's gain and then exactly one further call
\* for the same PCB, boost when the gain is above 0 and preempt otherwise; for
\* a probe whose execution raised it has received neither boost nor preempt.
C33_GainRecordedThenBoostOrPreempt ==
    inv.pc \in {"finally"} =>
        IF inv.pending = ""
            THEN /\ Len(inv.calls) = 2
                 /\ inv.calls[1] = record_gain(inv.pcb, inv.gain)
                 /\ inv.calls[2].id = inv.pcb
                 /\ inv.calls[2].op = (IF inv.gain > 0 THEN "boost" ELSE "preempt")
            ELSE \A k \in 1..Len(inv.calls) : inv.calls[k].op \notin {"boost", "preempt"}

\* both branches of the policy have been taken in one run, and a probe has raised
C33_Witness ==
    /\ inv.pc = "finally"
    /\ inv.pending = ""
    /\ inv.gain > 0
    /\ inv.calls[2].op = "boost"
    /\ inv.probes_run >= 2
    /\ \E k \in 1..inv.inputs.suspects : inv.budget[k] < inv.inputs.time_budget

\* ---------------------------------------------------------------------------
\* Further claims about run_controller
\* ---------------------------------------------------------------------------

\* txn_patch runs on a call of the controller
InControllerTxn == ctl.pc \in {"txn", "txn_retry"}

\* C34 as stated: in a txn_patch call of the controller the number of
\* proposals tried is at most search.finalists.
C34_TriedAtMostFinalists ==
    InControllerTxn => attempt <= ctl.search.finalists

\* C34: in a txn_patch call of the controller the number of proposals tried
\* is at most max(1, search.finalists), whatever finalists, the length of the
\* proposer's list and actions_per_txn are.
C34_TriedAtMostFinalistsOrOne ==
    InControllerTxn =>
        /\ attempt <= Max(1, ctl.search.finalists)
        /\ Len(trail) <= Max(1, ctl.search.finalists)

\* the shortlist has cut a longer list and every finalist has been tried
C34_Witness ==
    /\ InControllerTxn
    /\ pc = "done"
    /\ ctl.search.finalists = 2
    /\ Len(proposals) = 2
    /\ attempt = 2
    /\ Len(trail) = 2

\* C35: once a transaction of a step has returned committed=True the
\* controller calls neither the proposer nor txn_patch again for that step,
\* and so no step has more than one committed transaction.
C35_NoCallAfterCommit ==
    /\ \A i \in 1..Len(ctl.events) :
        ctl.events[i].what = "committed" =>
            \A j \in (i + 1)..Len(ctl.events) : ctl.events[j].step # ctl.events[i].step
    /\ \A s \in 1..MaxPlan :
        Cardinality({i \in 1..Len(ctl.events) :
                        ctl.events[i] = [step |-> s, what |-> "committed"]}) <= 1

\* a step committed on the transaction after a failed one, and the run has
\* gone on to commit the next step
C35_Witness ==
    /\ ctl.pc = "done"
    /\ Len(ctl.plan) >= 2
    /\ \E i, j \in 1..Len(ctl.events) :
        /\ i < j
        /\ ctl.events[i] = [step |-> 1, what |-> "committed"]
        /\ ctl.events[j] = [step |-> 2, what |-> "committed"]
    /\ \E i \in 1..Len(ctl.events) : ctl.events[i] = [step |-> 1, what |-> "failed"]

\* git status shows nothing: git add -A would stage nothing
CleanTree == stage_all(work, HeadTree) = HeadTree

\* the steps of the committed TransactionResults, in the order of the list
CommittedSteps ==
    LET e == SelectSeq(ctl.events, LAMBDA x : x.what = "committed")
    IN  [i \in 1..Len(e) |-> e[i].step]

\* HEAD is the baseline checkpoint followed by one commit for each committed
\* TransactionResult, in the order of the list
HeadIsBaselinePlusCommitted ==
    /\ Len(commits) = ctl.baseline + Len(CommittedSteps)
    /\ Len(CommittedSteps)
          = Len(SelectSeq(ctl.transactions, LAMBDA t : t.committed))
    /\ \A i \in 1..Len(CommittedSteps) :
        commits[ctl.baseline + i].message = <<"txn:", CommittedSteps[i]>>

\* C36 as stated: when run_controller returns, HEAD is the baseline checkpoint
\* followed by exactly one commit for each committed TransactionResult of the
\* returned list, in list order, and the working tree has no uncommitted change.
C36_HeadIsCommittedTransactionsAndTreeClean ==
    ctl.pc = "done" => (HeadIsBaselinePlusCommitted /\ CleanTree)

\* C36: when run_controller returns, HEAD is the baseline checkpoint followed
\* by exactly one commit for each committed TransactionResult of the returned
\* list, in list order; the working tree has no uncommitted change when it had
\* none at the baseline checkpoint or the list is not empty.
C36_HeadIsCommittedTransactionsTreeCleanAfterAny ==
    ctl.pc = "done" =>
        /\ HeadIsBaselinePlusCommitted
        /\ (ctl.clean_at_baseline \/ ctl.transactions # <<>>) => CleanTree

\* a run that failed one transaction and committed two
C36_Witness ==
    /\ ctl.pc = "done"
    /\ ctl.clean_at_baseline
    /\ Len(ctl.transactions) = 3
    /\ Len(CommittedSteps) = 2
    /\ Len(commits) = ctl.baseline + 2
    /\ ~ctl.transactions[1].committed
    /\ CleanTree

\* ---------------------------------------------------------------------------
\* txn_patch under the mu gate: proposals that add one line, add two lines,
\* replace a line, and write a new file from a tracked one
\* ---------------------------------------------------------------------------

MaxMuProposals == 2     \* longest list of proposals of these runs

PAddTwo == <<Hdr(ModPy, ModPy), Hunk(1, 1), Ctx("def f"), Add("z"), Add("w")>>
PMove   == <<Hdr(OtherPy, GonePy), Hunk(1, 1), Ctx("x"), Add("z"), Add("w")>>
MuPool  == {PAdd, PAddTwo, PFix, PMove}

\* txn_patch is entered on a clean tree with up to MaxMuProposals proposals
InitMu ==
    /\ vdiff = <<>>
    /\ vparams = [allowed_files |-> {}, target_spans |-> <<>>, padding_lines |-> 0,
                  max_loc |-> 0, max_files |-> 0, allow_api_change |-> FALSE]
    /\ vresult = [err |-> "<pending>", walk |-> WalkInit]
    /\ config \in ConfigInputs
    /\ proposals \in UNION {[1..n -> MuPool] : n \in 0..MaxMuProposals}
    /\ ignored = {PycFile}
    /\ commits = <<[message |-> <<"init">>, tree |-> BaseTree]>>
    /\ work = BaseTree
    /\ pc = "entry"
    /\ head = 0
    /\ attempt = 0
    /\ mu_pre = NoMu /\ mu_candidate = NoMu /\ mu_post = NoMu
    /\ logs = <<>>
    /\ result = NoResult
    /\ entry_work = work
    /\ baseline = "none"
    /\ trail = <<>>
    /\ VcsIdle /\ DeriveIdle /\ CtlIdle /\ CliIdle /\ InvIdle

SpecMu == InitMu /\ [][Next]_vars

\* the files a proposal names, on either side of its 'diff --git' lines
ProposalFiles(p) ==
    {p[i].a : i \in {j \in 1..Len(p) : p[j].k = "hdr"}}
        \cup {p[i].b : i \in {j \in 1..Len(p) : p[j].k = "hdr"}}

\* floor((added + deleted) / 2) of the change of file f from tree old to tree new
HalfChurn(old, new, f) ==
    (Numstat(old[f].lines, new[f].lines)[1] + Numstat(old[f].lines, new[f].lines)[2]) \div 2

\* txn_patch has committed with targeted tests off, the mu test on and a
\* clean tree at entry
CommittedUnderMuGate ==
    /\ result.kind = "returned"
    /\ result.committed
    /\ ~config.targeted_tests
    /\ config.require_mu_nonworsening
    /\ entry_work = commits[head].tree
    /\ mu_pre = 0

\* C37 as stated: such a commit has floor((added + deleted) / 2) = 0 for
\* every file the proposal changes.
C37_AtMostOneLinePerFile ==
    CommittedUnderMuGate =>
        \A f \in ProposalFiles(proposals[result.applied_diff]) :
            HalfChurn(commits[head].tree, HeadTree, f) = 0

\* C37: _measure_mu is the sum of floor((added + deleted) / 2) over the
\* tracked files the tree changes, and such a commit has
\* floor((added + deleted) / 2) = 0 for every tracked file the proposal
\* changes; a file the proposal creates is not counted.
C37_AtMostOneLinePerTrackedFile ==
    /\ pc \in {"static", "targeted", "mu_post"} /\ mu_candidate # NoMu =>
        mu_candidate = MuSum(work, commits[head].tree, 1)
    /\ CommittedUnderMuGate =>
        \A f \in ProposalFiles(proposals[result.applied_diff]) :
            Tracked(commits[head].tree, f) => HalfChurn(commits[head].tree, HeadTree, f) = 0

\* a proposal that adds one line to a tracked file has been committed after
\* one that adds two was rolled back
C37_Witness ==
    /\ CommittedUnderMuGate
    /\ proposals = <<PAddTwo, PAdd>>
    /\ result.applied_diff = 2
    /\ Numstat(commits[head].tree[ModPy].lines, HeadTree[ModPy].lines) = <<1, 0>>
    /\ logs = <<"mu worsened">>

\* ---------------------------------------------------------------------------
\* Further claims about txn_patch: the TransactionResult
\* ---------------------------------------------------------------------------

\* C38: a returned TransactionResult with committed=False has applied_diff
\* None and mu_post = mu_pre; one with committed=True names a proposal of the
\* list, the one whose attempt reached the commit: every other attempt ended
\* before it, and the commit is the staged tree that attempt left.
C38_ResultWellFormed ==
    result.kind = "returned" =>
        IF ~result.committed
            THEN /\ result.applied_diff = 0
                 /\ result.mu_post = result.mu_pre
                 /\ \A k \in 1..Len(trail) : trail[k].outcome # "committed"
            ELSE /\ result.applied_diff \in 1..Len(proposals)
                 /\ trail # <<>>
                 /\ trail[Len(trail)].idx = result.applied_diff
                 /\ trail[Len(trail)].outcome = "committed"
                 /\ \A k \in 1..(Len(trail) - 1) :
                        /\ trail[k].idx < result.applied_diff
                        /\ trail[k].outcome \notin {"", "committed"}
                 /\ HeadTree = stage_all(trail[Len(trail)].after, commits[head].tree)
                 /\ Len(commits) = head + 1

\* the second proposal of the list was committed after the first was rolled back
C38_Witness ==
    /\ result.kind = "returned"
    /\ result.committed
    /\ result.applied_diff = 2
    /\ proposals[1] # proposals[2]
    /\ trail[1].outcome = "mu worsened"

\* the log entries that name a failed stage
FailureEntries ==
    {"validation failed", "git apply failed", "mu worsened", "static checks failed",
     "targeted tests failed"}

\* the stages an attempt can end in with the given log entry
StagesOf(entry) ==
    IF entry = "validation failed" THEN {"validate"}
    ELSE IF entry = "git apply failed" THEN {"apply"}
    ELSE IF entry = "mu worsened" THEN {"measure", "mu_check"}
    ELSE IF entry = "static checks failed" THEN {"static"}
    ELSE IF entry = "targeted tests failed" THEN {"targeted"}
    ELSE {}

\* the attempts of the call that were not committed, in attempt order
FailedAttempts == SelectSeq(trail, LAMBDA t : t.outcome # "committed")

\* C39: in a returned TransactionResult the log entries that name a failed
\* stage are, in attempt order, one for each attempted proposal that was not
\* committed, each naming the stage that attempt ended in; and a result with
\* committed=False after at least one attempt has non-empty logs.
C39_OneLogEntryPerFailedAttempt ==
    result.kind = "returned" =>
        LET entries == SelectSeq(result.logs, LAMBDA e : e \in FailureEntries) IN
        /\ Len(entries) = Len(FailedAttempts)
        /\ \A k \in 1..Len(FailedAttempts) :
            /\ k <= Len(entries)
            /\ FailedAttempts[k].idx = k
            /\ FailedAttempts[k].stages # <<>>
            /\ FailedAttempts[k].stages[Len(FailedAttempts[k].stages)] \in StagesOf(entries[k])
        /\ (~result.committed /\ trail # <<>>) => result.logs # <<>>

\* two attempts failed at different stages and both are in the logs, in order
C39_Witness ==
    /\ result.kind = "returned"
    /\ ~result.committed
    /\ Len(trail) = 2
    /\ result.logs = <<"validation failed", "static checks failed">>

====
